---- MODULE Spec2Model ----
(***************************************************************************)
(* A model of the DermAI front-end core: the HTTP client adapter           *)
(* (apiFetch), the entry normalizer (normalizeEntrySummary,                *)
(* normalizeEntryDetail), the API facade, the UserProvider identity cache, *)
(* the sequence-id cache, the screens' focus-bound fetches and the         *)
(* medication form.                                                        *)
(*                                                                         *)
(* JavaScript values are records [t, s, a]: t is the typeof-like tag, s    *)
(* the text of a string (or the decimal text of a number), a the elements  *)
(* of an array.  A text is a sequence of symbols; a symbol is a single     *)
(* character (" ", "-", ",", a digit) or an indivisible word without       *)
(* whitespace, separator or digit ("mole", "undefined", "a").              *)
(***************************************************************************)
EXTENDS Integers, Sequences, FiniteSets, TLC

VARIABLES
    \* entry normalizer harness
    raw,            \* the payload handed to the normalizer
    now,            \* the wall clock in milliseconds (Date.now())
    out,            \* the path raw was normalized on, the clock reading, the result
    again           \* the result of normalizing out.e once more

VARIABLES
    \* API facade
    requests,       \* the requests handed to fetch so far, oldest first
    call,           \* the facade call in progress, or the last one and how it ended
    resp,           \* the response the last settled fetch got
    calls           \* facade calls made so far

VARIABLES
    \* UserProvider
    user,           \* the current user in memory
    isLoading,      \* the startup load has not ended
    storage,        \* what AsyncStorage holds under STORAGE_KEY
    load,           \* the startup load: where it stands, what it read, how it ended
    creating,       \* the createUser in flight
    refreshing,     \* the refreshUser in flight
    signingOut,     \* the signOut in flight
    lastStep,       \* the step of the provider taken last
    ops             \* provider operations started so far

VARIABLES
    \* the screens
    loads,              \* the loads started so far, those in flight among them
    focused,            \* which screens are focused (the detail screen: mounted)
    entriesScreen,      \* entries and loading of the entries screen
    medicationsScreen,  \* medications, loading and categoryCounts
    homeScreen,         \* summaries of the home screen
    detailScreen        \* entry, error and loading of the entry-detail screen

VARIABLES
    \* the sequence-id cache
    sequenceIds,        \* the persisted map: <<user id, type>> to sequence id
    settingSequence,    \* the setSequenceId calls so far, those in flight among them
    gotSequence,        \* the last getSequenceId: who asked, for what, the answer
    completedSets,      \* the id of the last completed setSequenceId of each key
    overlapped          \* a setSequenceId has started while another was in flight

VARIABLES
    \* the medication form of the medications screen
    formVisible,        \* the form is shown
    formState,          \* what is typed into the form
    submitting,         \* a save is in progress
    editingMedication,  \* the medication the form edits, null when it adds one
    saving,             \* the handleSave in flight
    deleting,           \* the handleDelete in flight
    sent,               \* the facade calls the screen has made, oldest first
    alert,              \* the alert shown last
    handled,            \* the handler invoked last, and with what
    attempts            \* handler invocations so far

VARIABLES
    \* the category selection of the medications screen
    selectedCategory,   \* the category selected
    medications,        \* the category whose fetched data the visible list holds
    fetching,           \* the getMedications calls in flight, by target and closure
    categoryFocused,    \* the medications screen is focused
    fetchFailed,        \* a getMedications has failed
    selections          \* focus gains, selections and refetches so far

VARIABLES
    \* the photo submissions of the entries screens
    uploading,          \* the uploading flag of the screen of each condition
    uploads,            \* the runs of openPicker, in the order they started
    returnedIds         \* by condition, the sequence id returned to the last run completed

VARIABLES
    \* the export screen
    exporting,          \* the exporting flag
    exportRuns,         \* the runs of handleExport, in the order they started
    exportStatus        \* the tone of the status line, "none" when there is none

VARIABLES
    \* the add-mole-entry modal
    moleUploading,      \* the uploading flag of the modal
    moleRuns,           \* the runs of openImagePicker, in the order they started
    location            \* the location typed into the modal

normVars == <<raw, now, out, again>>
apiVars == <<requests, call, resp, calls>>
userVars == <<user, isLoading, storage, load, creating, refreshing, signingOut, lastStep, ops>>
screenVars ==
    <<loads, focused, entriesScreen, medicationsScreen, homeScreen, detailScreen>>
seqVars == <<sequenceIds, settingSequence, gotSequence, completedSets, overlapped>>
formVars ==
    <<formVisible, formState, submitting, editingMedication, saving, deleting, sent, alert,
      handled, attempts>>
categoryVars ==
    <<selectedCategory, medications, fetching, categoryFocused, fetchFailed, selections>>
pickerVars == <<uploading, uploads, returnedIds>>
exportVars == <<exporting, exportRuns, exportStatus>>
modalVars == <<moleUploading, moleRuns, location>>
vars ==
    <<normVars, apiVars, userVars, screenVars, seqVars, formVars, categoryVars, pickerVars, exportVars,
      modalVars>>

\* what the steps of one component leave alone
besidesNorm ==
    <<apiVars, userVars, screenVars, seqVars, formVars, categoryVars, pickerVars, exportVars,
      modalVars>>
besidesApi ==
    <<normVars, userVars, screenVars, seqVars, formVars, categoryVars, pickerVars, exportVars,
      modalVars>>
besidesUser ==
    <<normVars, apiVars, screenVars, seqVars, formVars, categoryVars, pickerVars, exportVars,
      modalVars>>
besidesScreens ==
    <<normVars, apiVars, userVars, seqVars, formVars, categoryVars, pickerVars, exportVars,
      modalVars>>
besidesSeq ==
    <<normVars, apiVars, userVars, screenVars, formVars, categoryVars, pickerVars, exportVars,
      modalVars>>
besidesForm ==
    <<normVars, apiVars, userVars, screenVars, seqVars, categoryVars, pickerVars, exportVars,
      modalVars>>
besidesCategory ==
    <<normVars, apiVars, userVars, screenVars, seqVars, formVars, pickerVars, exportVars,
      modalVars>>
besidesPicker ==
    <<normVars, apiVars, userVars, screenVars, seqVars, formVars, categoryVars, exportVars,
      modalVars>>
besidesExport ==
    <<normVars, apiVars, userVars, screenVars, seqVars, formVars, categoryVars, pickerVars,
      modalVars>>
besidesModal ==
    <<normVars, apiVars, userVars, screenVars, seqVars,
      formVars, categoryVars, pickerVars, exportVars>>

(***************************************************************************)
(* Bounds of the model.                                                    *)
(***************************************************************************)
MaxFields == 2      \* fields present in a generated payload
MaxWrap == 2        \* nesting depth of {entry: ...} envelopes
MaxClock == 2       \* clock readings
MaxCalls == 2       \* facade calls in one run
MaxAttempts == 2    \* invocations of the form's handlers in one run
MaxSelections == 2  \* focus gains, category selections and refetches in one run
MaxOps == 3         \* provider operations in one run
MaxLoads == 2       \* loads the screens start in one run
MaxSets == 2        \* setSequenceId calls in one run
MaxUploads == 3     \* runs of openPicker in one run
MaxBusy == 2        \* handlers with a busy flag started in one run, all screens together

(***************************************************************************)
(* JavaScript values.                                                      *)
(***************************************************************************)
Undef == [t |-> "undef", s |-> <<>>, a |-> <<>>]
Null == [t |-> "null", s |-> <<>>, a |-> <<>>]
Obj == [t |-> "obj", s |-> <<>>, a |-> <<>>]
Str(txt) == [t |-> "str", s |-> txt, a |-> <<>>]
Num(txt) == [t |-> "num", s |-> txt, a |-> <<>>]
Bool(b) == [t |-> "bool", s |-> IF b THEN <<"true">> ELSE <<"false">>, a |-> <<>>]
Arr(items) == [t |-> "arr", s |-> <<>>, a |-> items]

\* x == null (null or undefined): what ?? falls through on
Nullish(v) == v.t \in {"undef", "null"}

\* the truthiness of a value (!x is its negation)
Truthy(v) ==
    CASE v.t \in {"undef", "null"} -> FALSE
      [] v.t = "str" -> v.s # <<>>
      [] v.t = "num" -> v.s # <<"0">>
      [] v.t = "bool" -> v.s = <<"true">>
      [] OTHER -> TRUE

\* a ?? b ?? ... over a sequence of operands: the first that is not nullish
RECURSIVE Coalesce(_)
Coalesce(vs) ==
    IF vs = <<>> THEN Undef
    ELSE IF Len(vs) = 1 \/ ~Nullish(Head(vs)) THEN Head(vs)
    ELSE Coalesce(Tail(vs))

Whitespace == {" ", "\n"}
Digits == {"0", "1", "2", "3", "4", "5", "6", "7", "8", "9"}
DigitSeq == <<"0", "1", "2", "3", "4", "5", "6", "7", "8", "9">>

\* String.prototype.trim
RECURSIVE TrimLeft(_)
TrimLeft(txt) ==
    IF txt # <<>> /\ Head(txt) \in Whitespace THEN TrimLeft(Tail(txt)) ELSE txt

RECURSIVE TrimRight(_)
TrimRight(txt) ==
    IF txt # <<>> /\ txt[Len(txt)] \in Whitespace
    THEN TrimRight(SubSeq(txt, 1, Len(txt) - 1))
    ELSE txt

Trim(txt) == TrimRight(TrimLeft(txt))

\* String.prototype.startsWith
StartsWith(txt, prefix) ==
    Len(prefix) <= Len(txt) /\ SubSeq(txt, 1, Len(prefix)) = prefix

\* String.prototype.slice(n)
Slice(txt, n) == SubSeq(txt, n + 1, Len(txt))

\* Array.prototype.join over texts
RECURSIVE Join(_, _)
Join(txts, sep) ==
    IF txts = <<>> THEN <<>>
    ELSE IF Len(txts) = 1 THEN Head(txts)
    ELSE Head(txts) \o sep \o Join(Tail(txts), sep)

\* the decimal text of a natural number
RECURSIVE Decimal(_)
Decimal(n) ==
    IF n < 10 THEN <<DigitSeq[n + 1]>>
    ELSE Decimal(n \div 10) \o <<DigitSeq[(n % 10) + 1]>>

\* String(x)
RECURSIVE JsString(_)
JsString(v) ==
    CASE v.t \in {"str", "num", "bool"} -> v.s
      [] v.t = "null" -> <<"null">>
      [] v.t = "undef" -> <<"undefined">>
      [] v.t = "arr" ->
            Join([i \in 1..Len(v.a) |->
                    IF Nullish(v.a[i]) THEN <<>> ELSE JsString(v.a[i])], <<",">>)
      [] OTHER -> <<"[object Object]">>

\* what evaluating a method call on a value without that method leaves: a TypeError
Thrown == [t |-> "thrown", s |-> <<"TypeError">>, a |-> <<>>]

\* x.trim(): defined on strings only
JsTrim(v) == IF v.t = "str" THEN Str(Trim(v.s)) ELSE Thrown

\* the texts of a sequence that are not empty: .filter((item) => item.length > 0)
NonEmptyTexts(txts) ==
    LET Keep(x) == x # <<>> IN SelectSeq(txts, Keep)

\* .map((item) => (typeof item === 'string' ? item.trim() : String(item)))
ItemTexts(items) ==
    [i \in 1..Len(items) |->
        IF items[i].t = "str" THEN Trim(items[i].s) ELSE JsString(items[i])]

\* String.prototype.split(/\r?\n|;|,/)
Separators == {"\n", ";", ","}

RECURSIVE SplitFrom(_, _)
SplitFrom(txt, piece) ==
    IF txt = <<>> THEN <<piece>>
    ELSE IF Head(txt) \in Separators THEN <<piece>> \o SplitFrom(Tail(txt), <<>>)
    ELSE SplitFrom(Tail(txt), Append(piece, Head(txt)))

Split(txt) == SplitFrom(txt, <<>>)

\* the first match of /\d+(?:\.\d+)?/ in a text, <<>> when there is none
RECURSIVE RunEnd(_, _)
RunEnd(txt, i) ==
    IF i + 1 <= Len(txt) /\ txt[i + 1] \in Digits THEN RunEnd(txt, i + 1) ELSE i

MatchNumeral(txt) ==
    LET starts == {i \in 1..Len(txt) : txt[i] \in Digits}
    IN  IF starts = {} THEN <<>>
        ELSE LET i == CHOOSE k \in starts : \A m \in starts : k <= m
                 j == RunEnd(txt, i)
             IN  IF j + 2 <= Len(txt) /\ txt[j + 1] = "." /\ txt[j + 2] \in Digits
                 THEN SubSeq(txt, i, RunEnd(txt, j + 2))
                 ELSE SubSeq(txt, i, j)

\* Number(numeral) as the decimal text String() gives back for it
RECURSIVE StripLeadingZeros(_)
StripLeadingZeros(txt) ==
    IF Len(txt) > 1 /\ Head(txt) = "0" THEN StripLeadingZeros(Tail(txt)) ELSE txt

RECURSIVE StripTrailingZeros(_)
StripTrailingZeros(txt) ==
    IF txt # <<>> /\ txt[Len(txt)] = "0"
    THEN StripTrailingZeros(SubSeq(txt, 1, Len(txt) - 1))
    ELSE txt

NumberOf(numeral) ==
    LET dots == {i \in 1..Len(numeral) : numeral[i] = "."}
    IN  IF dots = {} THEN StripLeadingZeros(numeral)
        ELSE LET d == CHOOSE k \in dots : TRUE
                 whole == StripLeadingZeros(SubSeq(numeral, 1, d - 1))
                 frac == StripTrailingZeros(SubSeq(numeral, d + 1, Len(numeral)))
             IN  IF frac = <<>> THEN whole ELSE whole \o <<".">> \o frac

\* new Date().toISOString() at clock reading t
IsoString(t) == <<"T">> \o Decimal(t)

(***************************************************************************)
(* The entry normalizer.  An entry object is a function from the keys it   *)
(* carries to their values; reading a key it does not carry gives Undef.   *)
(***************************************************************************)
TypeKeys == <<"entry_type", "type", "entryType", "condition">>
IdKeys == <<"_id", "entry_id", "id", "entryId", "entryID">>
CreatedKeys == <<"created_at", "createdAt">>
SequenceKeys == <<"sequence_id", "sequenceId">>
ImageKeys == <<"image_id", "imageId", "photo_id">>
PhotoKeys == <<"photo_url", "photoUrl">>
AiCommentsKeys == <<"ai_comments", "aiComments", "ai_comment", "aiComment">>
RecommendationKeys ==
    <<"recommendations", "recommendation", "recommendation_text", "recommendationText">>
TreatmentKeys ==
    <<"treatment", "treatments", "recommended_treatments", "recommendedTreatments">>
NorwoodKeys == <<"norwood_score", "norwoodScore", "norwood_stage">>
AnalysisKeys == <<"analysis", "details">>
MedicationsKeys == <<"medications", "current_medications">>

Range(seq) == {seq[i] : i \in 1..Len(seq)}

EmptyObject == [k \in {} |-> Undef]

\* e.k
Get(e, k) == IF k \in DOMAIN e THEN e[k] ELSE Undef

\* {...e, ...u}
Merge(e, u) == [k \in DOMAIN e \cup DOMAIN u |-> IF k \in DOMAIN u THEN u[k] ELSE e[k]]

\* e.k1 ?? e.k2 ?? ... ?? last
FirstOf(e, keys, last) == Coalesce([i \in 1..Len(keys) |-> Get(e, keys[i])] \o <<last>>)

\* the three entry types of the EntryType union
EntryTypes == {<<"hairline">>, <<"acne">>, <<"mole">>}

\* lines 306-307: the entry type
ResolveEntryType(e) == FirstOf(e, TypeKeys, Str(<<"hairline">>))

\* ResolveEntryId without the typeof guard of line 315: trims whatever is truthy
ResolveEntryId_TrimsAnyTruthy(e, entryType, t) ==
    LET aliased == Coalesce([i \in 1..Len(IdKeys) |-> Get(e, IdKeys[i])])
        stringified == IF aliased.t = "num" THEN Str(JsString(aliased)) ELSE aliased
        prefix == JsString(entryType) \o <<"-">>
        trimmed == JsTrim(stringified)
    IN  IF ~Truthy(stringified) THEN Str(Decimal(t))
        ELSE IF trimmed = Thrown THEN Thrown
        ELSE Str(IF StartsWith(trimmed.s, prefix)
                 THEN Slice(trimmed.s, Len(prefix))
                 ELSE trimmed.s)

\* an id resolution that reads only the aliases the normalizer never writes (id,
\* entryId, entryID), so that a synthesized id is not found again
ResolveEntryId_SkipsWrittenKeys(e, entryType, t) ==
    LET aliased == Coalesce(<<Get(e, "id"), Get(e, "entryId"), Get(e, "entryID")>>)
        stringified == IF aliased.t = "num" THEN Str(JsString(aliased)) ELSE aliased
        prefix == JsString(entryType) \o <<"-">>
        stripped ==
            IF stringified.t = "str"
            THEN LET trimmed == JsTrim(stringified).s
                 IN  Str(IF StartsWith(trimmed, prefix)
                         THEN Slice(trimmed, Len(prefix))
                         ELSE trimmed)
            ELSE stringified
    IN  IF ~Truthy(stripped) THEN Str(Decimal(t)) ELSE stripped

\* an id resolution that looks for the prefix in the id as it came, untrimmed
ResolveEntryId_NoTrim(e, entryType, t) ==
    LET aliased == Coalesce([i \in 1..Len(IdKeys) |-> Get(e, IdKeys[i])])
        stringified == IF aliased.t = "num" THEN Str(JsString(aliased)) ELSE aliased
        prefix == JsString(entryType) \o <<"-">>
        stripped ==
            IF stringified.t = "str"
            THEN Str(IF StartsWith(stringified.s, prefix)
                     THEN Slice(stringified.s, Len(prefix))
                     ELSE stringified.s)
            ELSE stringified
    IN  IF ~Truthy(stripped) THEN Str(Decimal(t)) ELSE stripped

\* lines 309-323: the entry id, from the aliases, else from the clock reading t
ResolveEntryId(e, entryType, t) ==
    LET aliased == Coalesce([i \in 1..Len(IdKeys) |-> Get(e, IdKeys[i])])
        stringified == IF aliased.t = "num" THEN Str(JsString(aliased)) ELSE aliased
        prefix == JsString(entryType) \o <<"-">>
        stripped ==
            IF stringified.t = "str"
            THEN LET trimmed == JsTrim(stringified).s
                 IN  Str(IF StartsWith(trimmed, prefix)
                         THEN Slice(trimmed, Len(prefix))
                         ELSE trimmed)
            ELSE stringified
    IN  IF ~Truthy(stripped) THEN Str(Decimal(t)) ELSE stripped

\* lines 340-350 and 368-378: a free-text field from a string, an array or anything else
JoinedText(source) ==
    IF source.t = "str" THEN source
    ELSE IF source.t = "arr" THEN Str(Join(NonEmptyTexts(ItemTexts(source.a)), <<" ">>))
    ELSE IF ~Nullish(source) THEN Str(JsString(source))
    ELSE Null

\* value is a string that is blank after trim
BlankString(v) == v.t = "str" /\ Trim(v.s) = <<>>

\* value is a string that is not blank after trim
NonBlankString(v) == v.t = "str" /\ Trim(v.s) # <<>>

\* a backfill that looks only for a missing ai_summary, not for a blank one
BackfillAiSummary_OnlyWhenMissing(aiSummary, aiComments) ==
    IF ~Truthy(aiSummary) /\ NonBlankString(aiComments)
    THEN aiComments
    ELSE aiSummary

\* lines 353-359: ai_summary, backfilled from the normalized ai_comments
BackfillAiSummary(aiSummary, aiComments) ==
    IF (~Truthy(aiSummary) \/ BlankString(aiSummary)) /\ NonBlankString(aiComments)
    THEN aiComments
    ELSE aiSummary

\* lines 388-399: the treatment list
NormalizeTreatment(source) ==
    IF source.t = "arr"
    THEN Arr([i \in 1..Len(NonEmptyTexts(ItemTexts(source.a))) |->
                Str(NonEmptyTexts(ItemTexts(source.a))[i])])
    ELSE IF source.t = "str"
    THEN LET pieces == Split(source.s)
             kept == NonEmptyTexts([i \in 1..Len(pieces) |-> Trim(pieces[i])])
         IN  Arr([i \in 1..Len(kept) |-> Str(kept[i])])
    ELSE Null

\* lines 401-414: the Norwood score
NormalizeNorwood(source) ==
    IF source.t = "num" THEN source
    ELSE IF source.t = "str" /\ MatchNumeral(source.s) # <<>>
    THEN Num(NumberOf(MatchNumeral(source.s)))
    ELSE Null

\* lines 416-428: the first candidate that is a non-blank string, else null
RECURSIVE FindNonBlank(_)
FindNonBlank(candidates) ==
    IF candidates = <<>> THEN Null
    ELSE IF NonBlankString(Head(candidates)) THEN Head(candidates)
    ELSE FindNonBlank(Tail(candidates))

NormalizeSummaryField(summary, aiSummary, aiComments, recommendations, userNotes) ==
    FindNonBlank(<<summary, aiSummary, aiComments, recommendations, userNotes>>)

\* the outcome of calling a normalizer: st is "ok", "invalid" (the Error the
\* function throws itself) or "threw" (a TypeError out of a method call)
Outcome(st, e) == [st |-> st, e |-> e]
NoOutcome == Outcome("none", EmptyObject)

\* lines 300-431: normalizeEntrySummary on the value v with the own fields f, at
\* clock reading t
normalizeEntrySummary(v, f, t) ==
    IF ~Truthy(v) \/ v.t \notin {"obj", "arr"}
    THEN Outcome("invalid", EmptyObject)
    ELSE
    LET entryType == ResolveEntryType(f)
        entryId == ResolveEntryId(f, entryType, t)
        aiComments == JoinedText(FirstOf(f, AiCommentsKeys, Null))
        aiSummary == BackfillAiSummary(Get(f, "ai_summary"), aiComments)
        recommendations == JoinedText(FirstOf(f, RecommendationKeys, Null))
        treatment == NormalizeTreatment(FirstOf(f, TreatmentKeys, Null))
        norwood == NormalizeNorwood(FirstOf(f, NorwoodKeys, Null))
        summary == NormalizeSummaryField(Get(f, "summary"), aiSummary, aiComments,
                                         recommendations, Get(f, "user_notes"))
        e == Merge(IF aiSummary = Get(f, "ai_summary") THEN f
                   ELSE Merge(f, [ai_summary |-> aiSummary]),
                [entry_id |-> entryId,
                 _id |-> Coalesce(<<Get(f, "_id"), entryId>>),
                 entry_type |-> entryType,
                 created_at |-> FirstOf(f, CreatedKeys, Str(IsoString(t))),
                 sequence_id |-> FirstOf(f, SequenceKeys, Null),
                 image_id |-> FirstOf(f, ImageKeys, Null),
                 photo_url |-> FirstOf(f, PhotoKeys, Null),
                 ai_comments |-> aiComments,
                 recommendations |-> recommendations,
                 treatment |-> treatment,
                 norwood_score |-> norwood,
                 summary |-> summary])
    IN  IF \E k \in DOMAIN e : e[k] = Thrown
        THEN Outcome("threw", EmptyObject)
        ELSE Outcome("ok", e)

\* lines 733-756: the earlier variant of normalizeEntrySummary
normalizeEntrySummaryEarlier(v, f, t) ==
    IF ~Truthy(v) \/ v.t \notin {"obj", "arr"}
    THEN Outcome("invalid", EmptyObject)
    ELSE
    LET entryId == Coalesce(<<Get(f, "entry_id"), Get(f, "id"), Get(f, "entryId"), Get(f, "entryID")>>)
        entryType == FirstOf(f, TypeKeys, Str(<<"hairline">>))
        createdAt == FirstOf(f, CreatedKeys, Str(IsoString(t)))
    IN  Outcome("ok",
            Merge(f,
                [entry_id |->
                    IF ~Truthy(entryId)
                    THEN Str(JsString(entryType) \o <<"-">> \o Decimal(t))
                    ELSE entryId,
                 entry_type |-> entryType,
                 created_at |->
                    IF ~Truthy(createdAt) THEN Str(IsoString(t)) ELSE createdAt,
                 sequence_id |-> FirstOf(f, SequenceKeys, Null),
                 image_id |-> FirstOf(f, ImageKeys, Null),
                 photo_url |-> FirstOf(f, PhotoKeys, Null),
                 summary |->
                    Coalesce(<<Get(f, "summary"), Get(f, "ai_summary"),
                               Get(f, "user_notes"), Null>>)]))

(***************************************************************************)
(* A payload is the innermost value v (with its own fields f when it is an *)
(* object) inside wrap nested {entry: ...} envelopes.                      *)
(***************************************************************************)
Payload(wrap, v, f) == [wrap |-> wrap, v |-> v, f |-> f]

\* the payload as a field value of the envelope around it
AsFieldValue(p) == IF p.wrap > 0 THEN Obj ELSE p.v

\* the value and the own fields a function sees when it is handed the payload
TopValue(p) == IF p.wrap > 0 THEN Obj ELSE p.v
TopFields(p) ==
    IF p.wrap > 0
    THEN [entry |-> AsFieldValue([p EXCEPT !.wrap = @ - 1])]
    ELSE IF p.v.t = "obj" THEN p.f
    ELSE EmptyObject

\* normalizeEntryDetail unwrapping one envelope only, without the recursion of line 435
normalizeEntryDetail_OneLevel(p, t) ==
    LET inner == IF p.wrap > 0 THEN [p EXCEPT !.wrap = @ - 1] ELSE p
        summary ==
            IF Nullish(TopValue(inner))
            THEN normalizeEntrySummary(Obj, EmptyObject, t)
            ELSE normalizeEntrySummary(TopValue(inner), TopFields(inner), t)
    IN  IF summary.st # "ok" THEN summary
        ELSE Outcome("ok",
                Merge(summary.e,
                    [analysis |-> FirstOf(summary.e, AnalysisKeys, Null),
                     medications |-> FirstOf(summary.e, MedicationsKeys, Arr(<<>>))]))

\* normalizeEntryDetail without the default of line 437: a null payload reaches
\* normalizeEntrySummary as it is
RECURSIVE normalizeEntryDetail_NoDefault(_, _)
normalizeEntryDetail_NoDefault(p, t) ==
    IF p.wrap > 0
    THEN normalizeEntryDetail_NoDefault([p EXCEPT !.wrap = @ - 1], t)
    ELSE
    LET summary == normalizeEntrySummary(TopValue(p), TopFields(p), t)
    IN  IF summary.st # "ok" THEN summary
        ELSE Outcome("ok",
                Merge(summary.e,
                    [analysis |-> FirstOf(summary.e, AnalysisKeys, Null),
                     medications |-> FirstOf(summary.e, MedicationsKeys, Arr(<<>>))]))

\* lines 433-442: normalizeEntryDetail
RECURSIVE normalizeEntryDetail(_, _)
normalizeEntryDetail(p, t) ==
    IF p.wrap > 0
    THEN normalizeEntryDetail([p EXCEPT !.wrap = @ - 1], t)
    ELSE
    LET summary ==
            IF Nullish(p.v)
            THEN normalizeEntrySummary(Obj, EmptyObject, t)
            ELSE normalizeEntrySummary(TopValue(p), TopFields(p), t)
    IN  IF summary.st # "ok" THEN summary
        ELSE Outcome("ok",
                Merge(summary.e,
                    [analysis |-> FirstOf(summary.e, AnalysisKeys, Null),
                     medications |-> FirstOf(summary.e, MedicationsKeys, Arr(<<>>))]))

(***************************************************************************)
(* The payloads the harness draws from: every non-object value, and the    *)
(* objects that carry at most MaxFields fields of one cluster of keys.     *)
(* Keys of different clusters never meet in one expression of the          *)
(* normalizer.                                                             *)
(***************************************************************************)
Clusters ==
    { Range(TypeKeys) \cup {"_id", "entry_id"},
      Range(IdKeys) \cup {"entry_type"},
      Range(AiCommentsKeys) \cup {"ai_summary"},
      Range(RecommendationKeys) \cup {"summary"},
      {"summary", "ai_summary", "ai_comments", "recommendations", "user_notes"},
      Range(TreatmentKeys),
      Range(NorwoodKeys),
      Range(CreatedKeys) \cup Range(SequenceKeys),
      Range(ImageKeys) \cup Range(PhotoKeys),
      Range(AnalysisKeys) \cup Range(MedicationsKeys) }

ValuesOf(k) ==
    IF k \in Range(TypeKeys)
    THEN {Null, Str(<<"mole">>), Str(<<"rash">>), Num(<<"5">>)}
    ELSE IF k \in Range(IdKeys)
    THEN {Null, Str(<<>>), Str(<<" ", "mole", "-", "a", " ">>),
          Str(<<"hairline", "-", "hairline", "-", "b">>), Num(<<"5">>), Obj}
    ELSE IF k \in Range(AiCommentsKeys) \cup Range(RecommendationKeys)
    THEN {Null, Str(<<" ">>), Str(<<"a">>), Num(<<"5">>),
          Arr(<<Str(<<"a", " ">>), Str(<<" ">>), Str(<<"b">>)>>),
          Arr(<<Num(<<"5">>), Arr(<<Str(<<" ">>)>>), Arr(<<>>)>>)}
    ELSE IF k = "ai_summary"
    THEN {Null, Str(<<" ">>), Str(<<"c">>), Num(<<"5">>), Num(<<"0">>)}
    ELSE IF k \in {"summary", "user_notes"}
    THEN {Null, Str(<<" ">>), Str(<<"c">>), Num(<<"5">>)}
    ELSE IF k \in Range(TreatmentKeys)
    THEN {Null, Num(<<"5">>), Str(<<"a", ",", " ", "b", ";">>),
          Arr(<<Str(<<" ", "x">>), Str(<<>>), Num(<<"5">>)>>)}
    ELSE IF k \in Range(NorwoodKeys)
    THEN {Null, Num(<<"2", ".", "5">>), Str(<<"a">>),
          Str(<<"Stage", " ", "0", "2", ".", "5", "0", " ", "3">>)}
    ELSE IF k \in Range(AnalysisKeys)
    THEN {Null, Obj}
    ELSE IF k \in Range(MedicationsKeys)
    THEN {Null, Arr(<<Obj>>)}
    ELSE {Null, Str(<<"v">>)}

RECURSIVE KeySets(_, _)
KeySets(cluster, n) ==
    IF n = 0 THEN {{}}
    ELSE LET smaller == KeySets(cluster, n - 1)
         IN  smaller \cup {S \cup {k} : S \in smaller, k \in cluster}

ObjectsOver(S) ==
    {h \in [S -> UNION {ValuesOf(k) : k \in S}] : \A k \in S : h[k] \in ValuesOf(k)}

Objects == UNION {ObjectsOver(S) : S \in UNION {KeySets(c, MaxFields) : c \in Clusters}}

NonObjects ==
    {Null, Undef, Str(<<>>), Str(<<"a">>), Num(<<"5">>), Num(<<"0">>), Bool(TRUE),
     Bool(FALSE)}

Payloads ==
    {Payload(w, Obj, f) : w \in 0..MaxWrap, f \in Objects}
    \cup {Payload(w, v, EmptyObject) :
            w \in 0..MaxWrap, v \in (NonObjects \ {Undef}) \cup {Arr(<<>>)}}
    \cup {Payload(0, Undef, EmptyObject)}

(***************************************************************************)
(* The normalizer harness: one payload, normalized on one of the paths of  *)
(* the facade, and the result normalized once more.                        *)
(***************************************************************************)
NormInit ==
    /\ raw \in Payloads
    /\ now = 1
    /\ out = [path |-> "none", at |-> 0, r |-> NoOutcome]
    /\ again = NoOutcome

\* the harness at rest, for the specifications of the other components
NormIdle ==
    /\ raw = Payload(0, Null, EmptyObject)
    /\ now = 1
    /\ out = [path |-> "none", at |-> 0, r |-> NoOutcome]
    /\ again = NoOutcome

\* lines 476: getEntries normalizes each item of the list with normalizeEntrySummary
GetEntriesItem ==
    /\ out.path = "none"
    /\ out' = [path |-> "list", at |-> now,
               r |-> normalizeEntrySummary(TopValue(raw), TopFields(raw), now)]
    /\ UNCHANGED <<raw, now, again, besidesNorm>>

\* lines 479-482 and 527-532: getEntry and createEntry normalize the response with
\* normalizeEntryDetail
GetEntryResponse ==
    /\ out.path = "none"
    /\ out' = [path |-> "detail", at |-> now, r |-> normalizeEntryDetail(raw, now)]
    /\ UNCHANGED <<raw, now, again, besidesNorm>>

\* lines 802: the earlier variant's getEntries
GetEntriesItemEarlier ==
    /\ out.path = "none"
    /\ out' = [path |-> "earlier", at |-> now,
               r |-> normalizeEntrySummaryEarlier(TopValue(raw), TopFields(raw), now)]
    /\ UNCHANGED <<raw, now, again, besidesNorm>>

\* a normalized record handed to normalizeEntrySummary again
Renormalize ==
    /\ out.path \in {"list", "detail"}
    /\ out.r.st = "ok"
    /\ again = NoOutcome
    /\ \E t \in now..MaxClock :
        /\ now' = t
        /\ again' = normalizeEntrySummary(Obj, out.r.e, t)
    /\ UNCHANGED <<raw, out, besidesNorm>>

NextNorm ==
    \/ GetEntriesItem
    \/ GetEntryResponse
    \/ GetEntriesItemEarlier
    \/ Renormalize

(***************************************************************************)
(* The HTTP adapter and the medication writes of the facade.               *)
(***************************************************************************)
\* lines 8-11, 24: a stored user, or none
NoUser == [t |-> "null", id |-> <<>>, name |-> <<>>]
User(id, name) == [t |-> "user", id |-> id, name |-> name]

\* lines 451-457: createUser of the facade, from the response on; Thrown when the
\* response carries no id
apiCreateUser(data, name) ==
    LET id == Coalesce(<<data.user_id, data.id>>)
    IN  IF ~Truthy(id)
        THEN Thrown
        ELSE User(id.s, Coalesce(<<data.name, Str(name)>>).s)

\* lines 293: response.ok
ResponseOk(status) == status >= 200 /\ status <= 299

\* lines 287: JSON.parse, on the texts a server answers with; Thrown is its
\* SyntaxError
JsonParse(text) ==
    CASE text = <<"null">> -> Null
      [] text = <<"{", "}">> -> Obj
      [] text = <<"[", "]">> -> Arr(<<>>)
      [] text = <<"[", "{", "}", "]">> -> Arr(<<Obj>>)
      [] Len(text) = 4 /\ text[1] = "{" /\ text[4] = "}" -> Obj
      [] Len(text) = 1 /\ text[1] \in Digits -> Num(text)
      [] /\ Len(text) >= 2
         /\ text[1] = "\""
         /\ text[Len(text)] = "\""
         /\ \A i \in 2..(Len(text) - 1) : text[i] # "\"" ->
            Str(SubSeq(text, 2, Len(text) - 1))
      [] OTHER -> Thrown

\* the own fields of the value JSON.parse gives: those of {"key": "value"}, none
\* for every other text
JsonFields(text) ==
    IF Len(text) = 4 /\ text[1] = "{" /\ text[4] = "}"
    THEN [k \in {text[2]} |-> Str(<<text[3]>>)]
    ELSE EmptyObject

\* how a facade call ends, or stands while its request is in flight
Settled(st, err, status, body) == [st |-> st, err |-> err, status |-> status, body |-> body]

\* the variant of apiFetch that loses the raw text of a body that is not JSON
apiFetch_DropsUnparsedText(response) ==
    LET data == IF response.text = <<>> \/ JsonParse(response.text) = Thrown
                THEN Null
                ELSE JsonParse(response.text)
    IN  IF ~ResponseOk(response.status)
        THEN Settled("threw", "ApiError", response.status, data)
        ELSE Settled("returned", "none", 0, data)

\* the variant of apiFetch that lets the SyntaxError of JSON.parse escape
apiFetch_FailsOnUnparsedText(response) ==
    IF response.text # <<>> /\ JsonParse(response.text) = Thrown
    THEN Settled("threw", "SyntaxError", 0, Undef)
    ELSE LET data == IF response.text = <<>> THEN Null ELSE JsonParse(response.text)
         IN  IF ~ResponseOk(response.status)
             THEN Settled("threw", "ApiError", response.status, data)
             ELSE Settled("returned", "none", 0, data)

\* lines 282-297: apiFetch, from the response on
apiFetch(response) ==
    LET data == IF response.text = <<>>
                THEN Null
                ELSE IF JsonParse(response.text) = Thrown
                     THEN Str(response.text)
                     ELSE JsonParse(response.text)
    IN  IF ~ResponseOk(response.status)
        THEN Settled("threw", "ApiError", response.status, data)
        ELSE Settled("returned", "none", 0, data)

\* what a facade function does with its arguments: fail at once, or hand a request
\* to apiFetch
Rejected == [fetch |-> FALSE, method |-> "none", path |-> <<>>]
Request(method, path) == [fetch |-> TRUE, method |-> method, path |-> path]

\* lines 569, 580: the guard of the medication writes
InvalidMedicationId(medicationId) ==
    \/ medicationId = <<>>
    \/ Trim(medicationId) = <<>>
    \/ medicationId = <<"undefined">>

\* lines 565-577
updateMedication(medicationId) ==
    IF InvalidMedicationId(medicationId)
    THEN Rejected
    ELSE Request("PUT", <<"/medications/">> \o Trim(medicationId))

\* lines 579-587
deleteMedication(medicationId) ==
    IF InvalidMedicationId(medicationId)
    THEN Rejected
    ELSE Request("DELETE", <<"/medications/">> \o Trim(medicationId))

\* lines 891-899: the earlier variant
updateMedicationEarlier(medicationId) ==
    Request("PUT", <<"/medications/">> \o medicationId)

\* lines 901-905: the earlier variant
deleteMedicationEarlier(medicationId) ==
    Request("DELETE", <<"/medications/">> \o medicationId)

\* lines 535-539
deleteEntry(entryId) ==
    Request("DELETE", <<"/entries/">> \o entryId)

\* the ids a screen hands to the medication writes
MedicationIds ==
    {<<>>, <<" ">>, <<"undefined">>, <<" ", "undefined", " ">>, <<"m1">>, <<" ", "m1">>}

\* the answers of the server
Statuses == {200, 204, 301, 404, 500}
ResponseTexts ==
    {<<>>, <<" ">>, <<"null">>, <<"{", "}">>, <<"\"", "gone", "\"">>, <<"<", "html", ">">>,
     <<"[", "]">>, <<"[", "{", "}", "]">>,
     <<"{", "user_id", "u1", "}">>, <<"{", "url", "x", "}">>}
Responses == [kind : {"http"}, status : Statuses, text : ResponseTexts]
NoResponse == [kind |-> "none", status |-> 0, text |-> <<>>]

NoCall ==
    [op |-> "none", id |-> <<>>, issued |-> 0,
     fetched |-> Settled("idle", "none", 0, Undef),
     r |-> Settled("idle", "none", 0, Undef)]

\* a facade that catches a failed apiFetch and returns null in its place
FacadeResult_SwallowsFailure(op, arg, fetched, fields, web) ==
    IF fetched.st = "threw"
    THEN Settled("returned", "none", 0, Null)
    ELSE Settled("returned", "none", 0, fetched.body)

\* what a facade function makes of the outcome of its apiFetch: a throw passes
\* through, since no function of the facade catches; data is what apiFetch returned,
\* fields its own fields, arg the name or id the function was called with
FacadeResult(op, arg, fetched, fields, web) ==
    LET data == fetched.body
        Returns(v) == Settled("returned", "none", 0, v)
        Throws(err) == Settled("threw", err, 0, Undef)
    IN  IF fetched.st = "threw" THEN fetched
        ELSE CASE op = "createUser" ->
                    \* lines 451-457
                    IF Nullish(data) THEN Throws("TypeError")
                    ELSE LET u == apiCreateUser(
                                    [user_id |-> Get(fields, "user_id"),
                                     id |-> Get(fields, "id"),
                                     name |-> Get(fields, "name")], arg)
                         IN  IF u = Thrown THEN Throws("InvalidResponse") ELSE Returns(u)
               [] op = "getEntries" ->
                    \* lines 470-476
                    LET list == IF data.t = "arr" THEN data.a
                                ELSE IF Get(fields, "entries").t = "arr"
                                     THEN Get(fields, "entries").a
                                     ELSE <<>>
                        items == [i \in 1..Len(list) |->
                                    normalizeEntrySummary(list[i], EmptyObject, now)]
                    IN  IF \E i \in 1..Len(list) : items[i].st # "ok"
                        THEN Throws("InvalidPayload")
                        ELSE Returns([t |-> "arr", s |-> <<>>,
                                      a |-> [i \in 1..Len(list) |-> items[i].e]])
               [] op \in {"getEntry", "createEntry"} ->
                    \* lines 480-481, 526-532
                    LET detail == normalizeEntryDetail(Payload(0, data, fields), now)
                    IN  IF detail.st # "ok"
                        THEN Throws("InvalidPayload")
                        ELSE Returns([t |-> "obj", s |-> <<>>, a |-> <<>>, e |-> detail.e])
               [] op = "getMedications" ->
                    \* lines 547-555
                    IF data.t = "arr" THEN Returns(data)
                    ELSE IF data.t = "obj" /\ "medications" \in DOMAIN fields
                         THEN Returns(Get(fields, "medications"))
                         ELSE Returns(Arr(<<>>))
               [] op = "exportPdf" ->
                    \* lines 594-606
                    IF data.t = "str" THEN Returns(data)
                    ELSE IF data.t \in {"obj", "arr"} /\ "url" \in DOMAIN fields
                         THEN Returns(Str(JsString(Get(fields, "url"))))
                         ELSE IF web /\ Truthy(data)
                              THEN Returns(Str(<<"blob:">>))
                              ELSE Throws("UnexpectedFormat")
               [] op \in {"deleteEntry", "deleteMedication", "deleteMedicationEarlier"} ->
                    \* lines 535-539, 584-586, 901-905: nothing is returned
                    Returns(Undef)
               [] OTHER ->
                    \* lines 460-462, 558-563, 573-576, 895-898: the data as it is
                    Returns(data)

ApiInit ==
    /\ requests = <<>>
    /\ call = NoCall
    /\ resp = NoResponse
    /\ calls = 0

\* the caller awaits one facade call at a time
CanCall == calls < MaxCalls /\ call.r.st # "pending"

\* one call of a facade function: it throws before any request, or its request goes
\* to fetch (lines 277)
Invoke(op, id, step) ==
    /\ calls' = calls + 1
    /\ resp' = NoResponse
    /\ IF step.fetch
       THEN /\ requests' = Append(requests, [method |-> step.method, path |-> step.path])
            /\ call' = [op |-> op, id |-> id, issued |-> 1,
                        fetched |-> Settled("pending", "none", 0, Undef),
                        r |-> Settled("pending", "none", 0, Undef)]
       ELSE /\ requests' = requests
            /\ call' = [op |-> op, id |-> id, issued |-> 0,
                        fetched |-> Settled("idle", "none", 0, Undef),
                        r |-> Settled("threw", "InvalidId", 0, Undef)]
    /\ UNCHANGED besidesApi

CallUpdateMedication ==
    /\ CanCall
    /\ \E id \in MedicationIds : Invoke("updateMedication", id, updateMedication(id))

CallDeleteMedication ==
    /\ CanCall
    /\ \E id \in MedicationIds : Invoke("deleteMedication", id, deleteMedication(id))

CallUpdateMedicationEarlier ==
    /\ CanCall
    /\ \E id \in MedicationIds : Invoke("updateMedicationEarlier", id, updateMedicationEarlier(id))

CallDeleteMedicationEarlier ==
    /\ CanCall
    /\ \E id \in MedicationIds : Invoke("deleteMedicationEarlier", id, deleteMedicationEarlier(id))

CallDeleteEntry ==
    /\ CanCall
    /\ \E id \in {<<"e1">>} : Invoke("deleteEntry", id, deleteEntry(id))

\* lines 444-449: createUser
CallCreateUser ==
    /\ CanCall
    /\ \E name \in {<<"zed">>} :
        Invoke("createUser", name, Request("POST", <<"/create-user">>))

\* lines 460-462: getUser
CallGetUser ==
    /\ CanCall
    /\ \E userId \in {<<"u1">>} :
        Invoke("getUser", userId, Request("GET", <<"/users/">> \o userId))

\* lines 464-468: getEntries, with and without an entry type
CallGetEntries ==
    /\ CanCall
    /\ \E userId \in {<<"u1">>}, params \in {<<>>, <<"?entry_type=", "mole">>} :
        Invoke("getEntries", userId,
               Request("GET", <<"/users/">> \o userId \o <<"/entries">> \o params))

\* lines 479-480: getEntry
CallGetEntry ==
    /\ CanCall
    /\ \E entryId \in {<<"e1">>} :
        Invoke("getEntry", entryId, Request("GET", <<"/entries/">> \o entryId))

\* lines 495-532: createEntry
CallCreateEntry ==
    /\ CanCall
    /\ \E userId \in {<<"u1">>}, entryType \in {<<"mole">>} :
        Invoke("createEntry", userId,
               Request("POST", <<"/users/">> \o userId \o <<"/">> \o entryType
                                   \o <<"-entries">>))

\* lines 541-545: getMedications, with and without a category
CallGetMedications ==
    /\ CanCall
    /\ \E userId \in {<<"u1">>}, params \in {<<>>, <<"?category=", "acne">>} :
        Invoke("getMedications", userId,
               Request("GET", <<"/users/">> \o userId \o <<"/medications">> \o params))

\* lines 558-563: addMedication
CallAddMedication ==
    /\ CanCall
    /\ \E userId \in {<<"u1">>} :
        Invoke("addMedication", userId,
               Request("POST", <<"/users/">> \o userId \o <<"/medications">>))

\* lines 589-592: exportPdf
CallExportPdf ==
    /\ CanCall
    /\ \E userId \in {<<"u1">>} :
        Invoke("exportPdf", userId,
               Request("GET", <<"/users/">> \o userId \o <<"/export-pdf">>))

\* lines 277-297: the server answers, apiFetch settles, and the facade function goes
\* on with what apiFetch returned; web is Platform.OS === 'web'
FetchResolves ==
    /\ call.r.st = "pending"
    /\ \E response \in Responses, web \in BOOLEAN :
        /\ resp' = response
        /\ call' = [call EXCEPT
                        !.fetched = apiFetch(response),
                        !.r = FacadeResult(call.op, call.id, apiFetch(response),
                                           JsonFields(response.text), web)]
    /\ UNCHANGED <<requests, calls, besidesApi>>

\* lines 277: fetch itself rejects (no connection), and the rejection passes through
FetchRejects ==
    /\ call.r.st = "pending"
    /\ resp' = [kind |-> "failed", status |-> 0, text |-> <<>>]
    /\ call' = [call EXCEPT
                    !.fetched = Settled("threw", "TypeError", 0, Undef),
                    !.r = Settled("threw", "TypeError", 0, Undef)]
    /\ UNCHANGED <<requests, calls, besidesApi>>

ApiNext ==
    \/ CallUpdateMedication
    \/ CallDeleteMedication
    \/ CallUpdateMedicationEarlier
    \/ CallDeleteMedicationEarlier
    \/ CallDeleteEntry
    \/ CallCreateUser
    \/ CallGetUser
    \/ CallGetEntries
    \/ CallGetEntry
    \/ CallCreateEntry
    \/ CallGetMedications
    \/ CallAddMedication
    \/ CallExportPdf
    \/ FetchResolves
    \/ FetchRejects

(***************************************************************************)
(* UserProvider: the current user in memory, its copy in AsyncStorage, the *)
(* startup load, and createUser / refreshUser / signOut.  Each operation   *)
(* is cut at its awaits.                                                   *)
(***************************************************************************)
\* lines 45: JSON.stringify of a stored user
Stringify(u) == <<"{", "id">> \o u.id \o <<"name">> \o u.name \o <<"}">>

\* where the name key stands in a stored text, 0 if nowhere
NameAt(text) ==
    IF \E k \in 1..Len(text) : text[k] = "name"
    THEN CHOOSE k \in 1..Len(text) :
            text[k] = "name" /\ \A j \in 1..(k - 1) : text[j] # "name"
    ELSE 0

\* lines 32: JSON.parse of the stored text; Thrown is its SyntaxError
ParseStored(text) ==
    IF text = <<"null">>
    THEN NoUser
    ELSE IF /\ Len(text) >= 4
            /\ text[1] = "{"
            /\ text[2] = "id"
            /\ text[Len(text)] = "}"
            /\ NameAt(text) >= 3
         THEN User(SubSeq(text, 3, NameAt(text) - 1),
                   SubSeq(text, NameAt(text) + 1, Len(text) - 1))
         ELSE Thrown

\* what the startup load leaves behind
Loaded(u, loading, outcome) == [user |-> u, isLoading |-> loading, outcome |-> outcome]

\* the startup load without its catch and finally: a failure escapes
StartupLoad_NoCatch(ok, stored, u) ==
    IF ~ok
    THEN Loaded(u, TRUE, "crashed")
    ELSE IF ~Truthy(stored)
         THEN Loaded(u, FALSE, "empty")
         ELSE IF ParseStored(stored.s) = Thrown
              THEN Loaded(u, TRUE, "crashed")
              ELSE Loaded(ParseStored(stored.s), FALSE, "restored")

\* lines 29-39: the startup load, from the settling of AsyncStorage.getItem on;
\* ok says whether the read resolved, stored is what it resolved with, u the user
\* in memory
StartupLoad(ok, stored, u) ==
    IF ~ok
    THEN Loaded(u, FALSE, "failed")
    ELSE IF ~Truthy(stored)
         THEN Loaded(u, FALSE, "empty")
         ELSE IF ParseStored(stored.s) = Thrown
              THEN Loaded(u, FALSE, "failed")
              ELSE Loaded(ParseStored(stored.s), FALSE, "restored")

\* lines 64-67: the user a refresh builds from the response and the user it started
\* with
RefreshedUser(data, u) ==
    User(Coalesce(<<data.user_id, Str(u.id)>>).s, Coalesce(<<data.name, Str(u.name)>>).s)

\* what the server answers to POST /create-user and GET /users/:id
CreateResponses ==
    [user_id : {Undef, Str(<<"u1">>)}, id : {Undef, Str(<<"u2">>)},
     name : {Undef, Str(<<"ann">>)}]
GetUserResponses ==
    [t : {"obj"}, user_id : {Undef, Str(<<"u2">>)}, name : {Undef, Str(<<"ann">>)}]
        \cup {[t |-> "null", user_id |-> Undef, name |-> Undef]}

\* what the user types into the onboarding form
TypedNames == {<<" ", "zed">>}

\* what AsyncStorage holds under STORAGE_KEY when the app starts
StoredAtStart ==
    {Null, Str(<<>>), Str(<<"null">>), Str(<<"{", "id", "u1">>),
     Str(Stringify(User(<<"u1">>, <<"ann">>)))}

Idle == [pc |-> "idle", u |-> NoUser]
NotLoaded == [pc |-> "reading", ok |-> TRUE, stored |-> Null, outcome |-> "none"]

UserInit ==
    /\ user = NoUser
    /\ isLoading = TRUE
    /\ storage \in StoredAtStart
    /\ load = NotLoaded
    /\ creating = Idle
    /\ refreshing = Idle
    /\ signingOut = Idle
    /\ lastStep = "none"
    /\ ops = 0

\* the provider of a run that is about another component: mounted and loaded
UserIdle ==
    /\ user = NoUser
    /\ isLoading = FALSE
    /\ storage = Null
    /\ load = [NotLoaded EXCEPT !.pc = "done", !.outcome = "empty"]
    /\ creating = Idle
    /\ refreshing = Idle
    /\ signingOut = Idle
    /\ lastStep = "none"
    /\ ops = 0

\* the provider with a user, loaded from the store
UserSignedIn ==
    /\ user = User(<<"u1">>, <<"ann">>)
    /\ isLoading = FALSE
    /\ storage = Str(Stringify(User(<<"u1">>, <<"ann">>)))
    /\ load = [NotLoaded EXCEPT !.pc = "done", !.stored = storage, !.outcome = "restored"]
    /\ creating = Idle
    /\ refreshing = Idle
    /\ signingOut = Idle
    /\ lastStep = "none"
    /\ ops = 0

\* lines 30: AsyncStorage.getItem settles: it resolves with the stored value or
\* rejects
LoadRead ==
    /\ load.pc = "reading"
    /\ \E ok \in BOOLEAN :
        load' = [load EXCEPT !.pc = "read", !.ok = ok,
                             !.stored = IF ok THEN storage ELSE Null]
    /\ lastStep' = "LoadRead"
    /\ UNCHANGED <<user, isLoading, storage, creating, refreshing, signingOut, ops>>
    /\ UNCHANGED besidesUser

\* lines 31-39: the rest of the startup load
LoadFinish ==
    /\ load.pc = "read"
    /\ LET end == StartupLoad(load.ok, load.stored, user)
       IN  /\ user' = end.user
           /\ isLoading' = end.isLoading
           /\ load' = [load EXCEPT !.pc = "done", !.outcome = end.outcome]
    /\ lastStep' = "LoadFinish"
    /\ UNCHANGED <<storage, creating, refreshing, signingOut, ops>>
    /\ UNCHANGED besidesUser

\* lines 51-52, and onboarding.tsx 28-35, 80: the form submits a name that is not
\* blank, once the provider has loaded
CreateUserStart ==
    /\ ops < MaxOps
    /\ ~isLoading
    /\ creating.pc = "idle"
    /\ \E name \in TypedNames :
        /\ Trim(name) # <<>>
        /\ creating' = [pc |-> "api", u |-> User(<<>>, Trim(name))]
    /\ ops' = ops + 1
    /\ lastStep' = "CreateUserStart"
    /\ UNCHANGED <<user, isLoading, storage, load, refreshing, signingOut>>
    /\ UNCHANGED besidesUser

\* lines 52-54: the request of createUser settles; on success the new user is set
CreateUserApi ==
    /\ creating.pc = "api"
    /\ \/ /\ creating' = Idle
          /\ user' = user
       \/ \E data \in CreateResponses :
            LET newUser == apiCreateUser(data, creating.u.name)
            IN  IF newUser = Thrown
                THEN creating' = Idle /\ user' = user
                ELSE creating' = [pc |-> "persist", u |-> newUser] /\ user' = newUser
    /\ lastStep' = "CreateUserApi"
    /\ UNCHANGED <<isLoading, storage, load, refreshing, signingOut, ops>>
    /\ UNCHANGED besidesUser

\* lines 43-49, 55: persistUser of createUser: setItem writes, or fails
CreateUserPersist ==
    /\ creating.pc = "persist"
    /\ \E ok \in BOOLEAN :
        storage' = IF ok THEN Str(Stringify(creating.u)) ELSE storage
    /\ creating' = Idle
    /\ lastStep' = "CreateUserPersist"
    /\ UNCHANGED <<user, isLoading, load, refreshing, signingOut, ops>>
    /\ UNCHANGED besidesUser

\* lines 59-62: refreshUser returns at once without a user, else asks the server
\* about the user it sees
RefreshUserStart ==
    /\ ops < MaxOps
    /\ refreshing.pc = "idle"
    /\ refreshing' = IF user = NoUser THEN Idle ELSE [pc |-> "api", u |-> user]
    /\ ops' = ops + 1
    /\ lastStep' = "RefreshUserStart"
    /\ UNCHANGED <<user, isLoading, storage, load, creating, signingOut>>
    /\ UNCHANGED besidesUser

\* lines 62-75: the request of refreshUser settles; an object answer replaces the
\* user
RefreshUserApi ==
    /\ refreshing.pc = "api"
    /\ \/ /\ refreshing' = Idle
          /\ user' = user
       \/ \E data \in GetUserResponses :
            IF data.t = "obj"
            THEN /\ user' = RefreshedUser(data, refreshing.u)
                 /\ refreshing' = [pc |-> "persist", u |-> RefreshedUser(data, refreshing.u)]
            ELSE /\ user' = user
                 /\ refreshing' = Idle
    /\ lastStep' = "RefreshUserApi"
    /\ UNCHANGED <<isLoading, storage, load, creating, signingOut, ops>>
    /\ UNCHANGED besidesUser

\* lines 43-49, 69: persistUser of refreshUser
RefreshUserPersist ==
    /\ refreshing.pc = "persist"
    /\ \E ok \in BOOLEAN :
        storage' = IF ok THEN Str(Stringify(refreshing.u)) ELSE storage
    /\ refreshing' = Idle
    /\ lastStep' = "RefreshUserPersist"
    /\ UNCHANGED <<user, isLoading, load, creating, signingOut, ops>>
    /\ UNCHANGED besidesUser

\* lines 78-80: signOut clears the user in memory and goes on to clear the store
SignOutStart ==
    /\ ops < MaxOps
    /\ signingOut.pc = "idle"
    /\ user' = NoUser
    /\ signingOut' = [pc |-> "persist", u |-> NoUser]
    /\ ops' = ops + 1
    /\ lastStep' = "SignOutStart"
    /\ UNCHANGED <<isLoading, storage, load, creating, refreshing>>
    /\ UNCHANGED besidesUser

\* lines 46-47, 80: persistUser of signOut: removeItem removes, or fails
SignOutPersist ==
    /\ signingOut.pc = "persist"
    /\ \E ok \in BOOLEAN :
        storage' = IF ok THEN Null ELSE storage
    /\ signingOut' = Idle
    /\ lastStep' = "SignOutPersist"
    /\ UNCHANGED <<user, isLoading, load, creating, refreshing, ops>>
    /\ UNCHANGED besidesUser

UserNext ==
    \/ LoadRead
    \/ LoadFinish
    \/ CreateUserStart
    \/ CreateUserApi
    \/ CreateUserPersist
    \/ RefreshUserStart
    \/ RefreshUserApi
    \/ RefreshUserPersist
    \/ SignOutStart
    \/ SignOutPersist

(***************************************************************************)
(* The loads the screens start on focus (entries list, medications list,   *)
(* home summaries) and on mount (entry detail).  Every run of an effect    *)
(* has a liveness flag of its own, which its cleanup sets to false; the    *)
(* navigator keeps a blurred screen mounted, so a state setter called      *)
(* after the cleanup still changes what the screen holds.                  *)
(***************************************************************************)
Tiles == {"norwood", "skin", "moles"}
Categories == {"hairline", "acne", "mole"}

\* medications.tsx 645: the category selected when the screen opens
SelectedCategory == "hairline"

\* what the server answers with: entries by created_at, medications by name, an
\* entry by id
EntryLists == {<<>>, <<1, 2>>}
MedicationLists == {<<>>, <<"m1">>}
EntryRecords == {"e1"}

\* a list with x put before the first item that is not newer than x
RECURSIVE InsertDesc(_, _)
InsertDesc(x, sorted) ==
    IF sorted = <<>>
    THEN <<x>>
    ELSE IF x >= Head(sorted)
         THEN <<x>> \o sorted
         ELSE <<Head(sorted)>> \o InsertDesc(x, Tail(sorted))

\* [condition].tsx 102-104 and part_004 134-138: the copy sorted by created_at,
\* newest first
RECURSIVE SortNewestFirst(_)
SortNewestFirst(list) ==
    IF list = <<>> THEN <<>> ELSE InsertDesc(Head(list), SortNewestFirst(Tail(list)))

\* part_004 45-49: buildDefaultSummary
DefaultSummary == [isLoading |-> FALSE, lastUpdatedLabel |-> <<"No entries yet">>, entries |-> <<>>]

\* part_004 56-67: formatDateForTile of the newest entry's created_at
FormatDateForTile(sortedEntries) ==
    IF sortedEntries = <<>>
    THEN <<"No entries yet">>
    ELSE <<"Last entry", Head(sortedEntries)>>

\* part_004 139-157: the summary a tile gets from its sorted entries
SummaryOf(sortedEntries) ==
    [isLoading |-> FALSE,
     lastUpdatedLabel |-> FormatDateForTile(sortedEntries),
     entries |-> sortedEntries]

\* a load in flight: the screen that started it, the liveness flag of the effect run
\* that started it, the requests it still waits for, the results it has collected
Load(screen, left) == [screen |-> screen, active |-> TRUE, left |-> left, acc |-> <<>>]

\* the cleanup of a screen's effect: the flags of its runs go false
Cleanup(screen) ==
    [i \in DOMAIN loads |->
        IF loads[i].screen = screen THEN [loads[i] EXCEPT !.active = FALSE] ELSE loads[i]]

ScreensInit ==
    /\ loads = <<>>
    /\ focused = [s \in {"entries", "medications", "home", "detail"} |-> FALSE]
    /\ entriesScreen = [entries |-> <<>>, loading |-> TRUE]
    /\ medicationsScreen =
            [medications |-> <<>>, loading |-> TRUE,
             categoryCounts |-> [c \in Categories |-> 0]]
    /\ homeScreen = [t \in Tiles |-> DefaultSummary]
    /\ detailScreen = [entryId |-> Undef, entry |-> "none", error |-> FALSE, loading |-> TRUE]

\* [condition].tsx 112-123, 98-101: the entries screen gains focus
EntriesFocus ==
    /\ Len(loads) < MaxLoads
    /\ ~focused["entries"]
    /\ focused' = [focused EXCEPT !["entries"] = TRUE]
    /\ IF user = NoUser
       THEN /\ entriesScreen' = [entriesScreen EXCEPT !.loading = FALSE]
            /\ loads' = loads
       ELSE /\ entriesScreen' = [entriesScreen EXCEPT !.loading = TRUE]
            /\ loads' = Append(loads, Load("entries", {"list"}))
    /\ UNCHANGED <<medicationsScreen, homeScreen, detailScreen>>
    /\ UNCHANGED besidesScreens

\* [condition].tsx 124-126: the cleanup on blur
EntriesBlur ==
    /\ focused["entries"]
    /\ focused' = [focused EXCEPT !["entries"] = FALSE]
    /\ loads' = Cleanup("entries")
    /\ UNCHANGED <<entriesScreen, medicationsScreen, homeScreen, detailScreen>>
    /\ UNCHANGED besidesScreens

\* [condition].tsx 101-109, 119-121: getEntries settles
EntriesResponse ==
    \E i \in DOMAIN loads :
        /\ loads[i].screen = "entries"
        /\ loads[i].left # {}
        /\ \E ok \in BOOLEAN, data \in EntryLists :
            entriesScreen' =
                [entries |-> IF ok THEN SortNewestFirst(data) ELSE entriesScreen.entries,
                 loading |-> IF loads[i].active THEN FALSE ELSE entriesScreen.loading]
        /\ loads' = [loads EXCEPT ![i].left = {}]
        /\ UNCHANGED <<focused, medicationsScreen, homeScreen, detailScreen>>
        /\ UNCHANGED besidesScreens

\* medications.tsx 694-706, 664-668: the medications screen gains focus
MedicationsFocus ==
    /\ Len(loads) < MaxLoads
    /\ ~focused["medications"]
    /\ focused' = [focused EXCEPT !["medications"] = TRUE]
    /\ IF user = NoUser
       THEN /\ medicationsScreen' = [medicationsScreen EXCEPT !.loading = FALSE]
            /\ loads' = loads
       ELSE /\ medicationsScreen' = [medicationsScreen EXCEPT !.loading = TRUE]
            /\ loads' = Append(loads, Load("medications", {"main"}))
    /\ UNCHANGED <<entriesScreen, homeScreen, detailScreen>>
    /\ UNCHANGED besidesScreens

\* medications.tsx 707-709: the cleanup on blur
MedicationsBlur ==
    /\ focused["medications"]
    /\ focused' = [focused EXCEPT !["medications"] = FALSE]
    /\ loads' = Cleanup("medications")
    /\ UNCHANGED <<entriesScreen, medicationsScreen, homeScreen, detailScreen>>
    /\ UNCHANGED besidesScreens

\* medications.tsx 668-677: what fetchMedications(category) does with its answer
FetchedMedications(category, ok, data) ==
    IF ok
    THEN [medicationsScreen EXCEPT
            !.medications = IF category = SelectedCategory THEN data ELSE @,
            !.categoryCounts[category] = Len(data)]
    ELSE medicationsScreen

\* medications.tsx 701-704, 681-692: the fetch of the selected category settles, the
\* prefetch of every category starts, and loading ends if the flag still stands
MedicationsResponse ==
    \E i \in DOMAIN loads :
        /\ loads[i].screen = "medications"
        /\ loads[i].left = {"main"}
        /\ \E ok \in BOOLEAN, data \in MedicationLists :
            medicationsScreen' =
                [FetchedMedications(SelectedCategory, ok, data) EXCEPT
                    !.loading = IF loads[i].active THEN FALSE ELSE @]
        /\ loads' = [loads EXCEPT ![i].left = Categories]
        /\ UNCHANGED <<focused, entriesScreen, homeScreen, detailScreen>>
        /\ UNCHANGED besidesScreens

\* medications.tsx 684-690: one fetch of the prefetch settles
MedicationsPrefetchResponse ==
    \E i \in DOMAIN loads :
        /\ loads[i].screen = "medications"
        /\ \E category \in loads[i].left \cap Categories :
            /\ \E ok \in BOOLEAN, data \in MedicationLists :
                medicationsScreen' = FetchedMedications(category, ok, data)
            /\ loads' = [loads EXCEPT ![i].left = @ \ {category}]
        /\ UNCHANGED <<focused, entriesScreen, homeScreen, detailScreen>>
        /\ UNCHANGED besidesScreens

\* part_004 117-133, 181: the home screen gains focus
HomeFocus ==
    /\ Len(loads) < MaxLoads
    /\ ~focused["home"]
    /\ focused' = [focused EXCEPT !["home"] = TRUE]
    /\ IF user = NoUser
       THEN /\ homeScreen' = homeScreen
            /\ loads' = loads
       ELSE /\ homeScreen' = [t \in Tiles |-> [homeScreen[t] EXCEPT !.isLoading = TRUE]]
            /\ loads' = Append(loads, Load("home", Tiles))
    /\ UNCHANGED <<entriesScreen, medicationsScreen, detailScreen>>
    /\ UNCHANGED besidesScreens

\* part_004 184-186: the cleanup on blur
HomeBlur ==
    /\ focused["home"]
    /\ focused' = [focused EXCEPT !["home"] = FALSE]
    /\ loads' = Cleanup("home")
    /\ UNCHANGED <<entriesScreen, medicationsScreen, homeScreen, detailScreen>>
    /\ UNCHANGED besidesScreens

\* the results collected so far, with one more
Collected(acc, tile, sortedEntries) ==
    [t \in DOMAIN acc \cup {tile} |-> IF t = tile THEN sortedEntries ELSE acc[t]]

\* a home load whose failure resets the tile that failed alone
HomeTileResponse_ResetsOwnTile ==
    \E i \in DOMAIN loads :
        /\ loads[i].screen = "home"
        /\ \E tile \in loads[i].left :
            \E ok \in BOOLEAN, data \in EntryLists :
                LET acc == Collected(loads[i].acc, tile, SortNewestFirst(data))
                IN  IF ~ok
                    THEN /\ loads' = [loads EXCEPT ![i].left = {}]
                         /\ homeScreen' = IF loads[i].active
                                          THEN [homeScreen EXCEPT ![tile] = DefaultSummary]
                                          ELSE homeScreen
                    ELSE /\ loads' = [loads EXCEPT ![i].left = @ \ {tile}, ![i].acc = acc]
                         /\ homeScreen' = IF loads[i].left = {tile} /\ loads[i].active
                                          THEN [t \in Tiles |-> SummaryOf(acc[t])]
                                          ELSE homeScreen
        /\ UNCHANGED <<focused, entriesScreen, medicationsScreen, detailScreen>>
        /\ UNCHANGED besidesScreens

\* part_004 130-169: the getEntries of one tile settles.  Promise.all resolves when
\* the last tile has its entries and rejects with the first failure.
HomeTileResponse ==
    \E i \in DOMAIN loads :
        /\ loads[i].screen = "home"
        /\ \E tile \in loads[i].left :
            \E ok \in BOOLEAN, data \in EntryLists :
                LET acc == Collected(loads[i].acc, tile, SortNewestFirst(data))
                IN  IF ~ok
                    THEN /\ loads' = [loads EXCEPT ![i].left = {}]
                         /\ homeScreen' = IF loads[i].active
                                          THEN [t \in Tiles |-> DefaultSummary]
                                          ELSE homeScreen
                    ELSE /\ loads' = [loads EXCEPT ![i].left = @ \ {tile}, ![i].acc = acc]
                         /\ homeScreen' = IF loads[i].left = {tile} /\ loads[i].active
                                          THEN [t \in Tiles |-> SummaryOf(acc[t])]
                                          ELSE homeScreen
        /\ UNCHANGED <<focused, entriesScreen, medicationsScreen, detailScreen>>
        /\ UNCHANGED besidesScreens

\* the entryId route parameter of a mount
RouteEntryIds == {Undef, Str(<<>>), Str(<<"e1">>)}

\* [entryId].tsx 156-159, 172-188: the detail screen mounts; the effect returns at
\* once without an entry id, else it starts the load
DetailMount ==
    /\ Len(loads) < MaxLoads
    /\ ~focused["detail"]
    /\ focused' = [focused EXCEPT !["detail"] = TRUE]
    /\ \E entryId \in RouteEntryIds :
        /\ detailScreen' =
                [entryId |-> entryId, entry |-> "none", error |-> FALSE, loading |-> TRUE]
        /\ loads' = IF Truthy(entryId)
                    THEN Append(loads, Load("detail", {"entry"}))
                    ELSE loads
    /\ UNCHANGED <<entriesScreen, medicationsScreen, homeScreen>>
    /\ UNCHANGED besidesScreens

\* [entryId].tsx 189-191: the cleanup of the effect
DetailUnmount ==
    /\ focused["detail"]
    /\ focused' = [focused EXCEPT !["detail"] = FALSE]
    /\ loads' = Cleanup("detail")
    /\ UNCHANGED <<entriesScreen, medicationsScreen, homeScreen, detailScreen>>
    /\ UNCHANGED besidesScreens

\* [entryId].tsx 177-186: getEntry settles
DetailResponse ==
    \E i \in DOMAIN loads :
        /\ loads[i].screen = "detail"
        /\ loads[i].left # {}
        /\ \E ok \in BOOLEAN, data \in EntryRecords :
            detailScreen' =
                IF ~loads[i].active
                THEN detailScreen
                ELSE IF ok
                     THEN [detailScreen EXCEPT !.entry = data, !.error = FALSE,
                                               !.loading = FALSE]
                     ELSE [detailScreen EXCEPT !.error = TRUE, !.loading = FALSE]
        /\ loads' = [loads EXCEPT ![i].left = {}]
        /\ UNCHANGED <<focused, entriesScreen, medicationsScreen, homeScreen>>
        /\ UNCHANGED besidesScreens

ScreensNext ==
    \/ EntriesFocus
    \/ EntriesBlur
    \/ EntriesResponse
    \/ MedicationsFocus
    \/ MedicationsBlur
    \/ MedicationsResponse
    \/ MedicationsPrefetchResponse
    \/ HomeFocus
    \/ HomeBlur
    \/ HomeTileResponse
    \/ DetailMount
    \/ DetailUnmount
    \/ DetailResponse

(***************************************************************************)
(* The sequence-id cache behind useSequenceId: one persisted map from user *)
(* id and condition type to the sequence id the server issued last.        *)
(* getSequenceId looks the current user's id up; setSequenceId reads the   *)
(* whole map, puts one key, and writes the whole map back.                 *)
(***************************************************************************)
\* [condition].tsx 193, 209: the types that take part
SequenceTypes == {"hairline", "acne"}
IssuedSequenceIds == {<<"s1">>, <<"s2">>}
CacheUsers == {User(<<"u1">>, <<"ann">>), User(<<"u2">>, <<"ann">>)}
NoSequenceIds == [k \in {} |-> <<>>]

\* a map with one key put
Put(map, key, id) == [k \in DOMAIN map \cup {key} |-> IF k = key THEN id ELSE map[k]]

\* getSequenceId(type), for the user u the provider holds
getSequenceId(map, u, type) ==
    IF u = NoUser
    THEN Null
    ELSE IF <<u.id, type>> \in DOMAIN map
         THEN Str(map[<<u.id, type>>])
         ELSE Null

\* a setSequenceId that writes back its own key alone
setSequenceId_WritesOneKey(read, u, type, id) ==
    Put(NoSequenceIds, <<u.id, type>>, id)

\* a setSequenceId that puts its key into the map as it stands at the write
setSequenceId_PutsIntoCurrent(read, u, type, id) ==
    Put(sequenceIds, <<u.id, type>>, id)

\* the map setSequenceId(type, id) writes back, from the map it read
setSequenceId(read, u, type, id) ==
    Put(read, <<u.id, type>>, id)

NotAsked ==
    [asked |-> FALSE, u |-> NoUser, type |-> "none", value |-> Null,
     completed |-> NoSequenceIds, overlapped |-> FALSE]

SeqInit ==
    /\ sequenceIds = NoSequenceIds
    /\ settingSequence = <<>>
    /\ gotSequence = NotAsked
    /\ completedSets = NoSequenceIds
    /\ overlapped = FALSE

\* a setSequenceId is between its read and its write
InFlight == \E i \in DOMAIN settingSequence : settingSequence[i].pc = "write"

\* [condition].tsx 209-211: setSequenceId is called with the id of the new entry, and
\* reads the map
SetSequenceIdRead ==
    /\ Len(settingSequence) < MaxSets
    /\ user # NoUser
    /\ \E type \in SequenceTypes, id \in IssuedSequenceIds :
        settingSequence' =
            Append(settingSequence,
                   [u |-> user, type |-> type, id |-> id, read |-> sequenceIds, pc |-> "write"])
    /\ overlapped' = (overlapped \/ InFlight)
    /\ UNCHANGED <<sequenceIds, gotSequence, completedSets>>
    /\ UNCHANGED besidesSeq

\* setSequenceId writes the map back and completes
SetSequenceIdWrite ==
    \E i \in DOMAIN settingSequence :
        LET set == settingSequence[i]
        IN  /\ set.pc = "write"
            /\ sequenceIds' = setSequenceId(set.read, set.u, set.type, set.id)
            /\ settingSequence' = [settingSequence EXCEPT ![i].pc = "done"]
            /\ completedSets' = Put(completedSets, <<set.u.id, set.type>>, set.id)
            /\ UNCHANGED <<gotSequence, overlapped>>
            /\ UNCHANGED besidesSeq

\* [condition].tsx 192-195: getSequenceId is called for a type
GetSequenceId ==
    /\ \E type \in SequenceTypes :
        gotSequence' =
            [asked |-> TRUE, u |-> user, type |-> type,
             value |-> getSequenceId(sequenceIds, user, type),
             completed |-> completedSets, overlapped |-> overlapped \/ InFlight]
    /\ UNCHANGED <<sequenceIds, settingSequence, completedSets, overlapped>>
    /\ UNCHANGED besidesSeq

\* UserContext.tsx 51-81: between the calls the provider's user changes, by sign out
\* and by the creation of another user
CacheUserChanges ==
    /\ \E u \in (CacheUsers \cup {NoUser}) \ {user} : user' = u
    /\ UNCHANGED <<isLoading, storage, load, creating, refreshing, signingOut, lastStep, ops>>
    /\ UNCHANGED <<sequenceIds, settingSequence, gotSequence, completedSets, overlapped>>
    /\ UNCHANGED <<normVars, apiVars, screenVars, formVars, categoryVars, pickerVars, exportVars,
                   modalVars>>

SeqNext ==
    \/ SetSequenceIdRead
    \/ SetSequenceIdWrite
    \/ GetSequenceId
    \/ CacheUserChanges

(***************************************************************************)
(* The specifications: one per component, the others at rest.              *)
(***************************************************************************)
(* The medication form of the medications screen: handleSave and           *)
(* handleDelete, in the current variant of the screen and in the earlier   *)
(* one.                                                                    *)
(***************************************************************************)
\* a || b || c
Or3(a, b, c) == IF Truthy(a) THEN a ELSE IF Truthy(b) THEN b ELSE c

\* medications.tsx 750, 135: !formState.name.trim(), tested on the empty text alone
NameMissing_EmptyOnly(name) == name = <<>>

\* medications.tsx 750, 135: !formState.name.trim()
NameMissing(name) == Trim(name) = <<>>

\* medications.tsx 758, 799: the id handed on by the current variant
ResolveMedicationId(medication) ==
    Or3(medication.medication_id, medication.id, medication._id)

\* medications.tsx 760, 801: !medicationId || medicationId === 'undefined'
InvalidResolvedId(medicationId) ==
    ~Truthy(medicationId) \/ medicationId = Str(<<"undefined">>)

\* the medications of the list, as the server sent them: any of the three ids may
\* be missing
FormMedications ==
    {[medication_id |-> Str(<<"m1">>), id |-> Str(<<"m2">>), _id |-> Undef],
     [medication_id |-> Undef, id |-> Str(<<"m2">>), _id |-> Str(<<"m3">>)],
     [medication_id |-> Str(<<>>), id |-> Undef, _id |-> Str(<<"m3">>)],
     [medication_id |-> Str(<<"undefined">>), id |-> Str(<<"m2">>), _id |-> Undef],
     [medication_id |-> Undef, id |-> Undef, _id |-> Undef]}

\* names typed into the form
FormNames == {<<>>, <<" ">>, <<" ", "n">>}

NoAlert == [title |-> "none", about |-> Null]
NoSaving == [pc |-> "idle", fn |-> "none"]
NoDeleting == [pc |-> "idle", id |-> Undef, about |-> Null]

\* medications.tsx 645-658: the initial values of useState
FormInit ==
    /\ formVisible = FALSE
    /\ formState = [name |-> <<>>]
    /\ submitting = FALSE
    /\ editingMedication = Null
    /\ saving = NoSaving
    /\ deleting = NoDeleting
    /\ sent = <<>>
    /\ alert = NoAlert
    /\ handled = [handler |-> "none", name |-> <<>>, about |-> Null]
    /\ attempts = 0

\* medications.tsx 723-741: openForm, on a medication of the list or for a new one;
\* the name field is then typed over
OpenForm ==
    /\ ~formVisible
    /\ attempts < MaxAttempts
    /\ \E medication \in FormMedications \cup {Null}, name \in FormNames :
        /\ editingMedication' = medication
        /\ formState' = [name |-> name]
    /\ formVisible' = TRUE
    /\ UNCHANGED <<submitting, saving, deleting, sent, alert, handled, attempts,
                   besidesForm>>

\* medications.tsx 743-746: closeForm
CloseForm ==
    /\ formVisible
    /\ formVisible' = IF submitting THEN formVisible ELSE FALSE
    /\ UNCHANGED <<formState, submitting, editingMedication, saving, deleting, sent,
                   alert, handled, attempts, besidesForm>>

\* handleSave up to its first await; passes says which id an update hands to the
\* facade, checks whether the id is looked at first
SaveStep(handler, passes, checks) ==
    /\ formVisible /\ ~submitting
    /\ attempts < MaxAttempts
    /\ attempts' = attempts + 1
    /\ handled' = [handler |-> handler, name |-> formState.name,
                   about |-> editingMedication]
    /\ IF user = NoUser
       THEN UNCHANGED <<submitting, saving, sent, alert>>
       ELSE IF NameMissing(formState.name)
       THEN /\ alert' = [title |-> "Name required", about |-> editingMedication]
            /\ UNCHANGED <<submitting, saving, sent>>
       ELSE IF editingMedication # Null /\ checks /\ InvalidResolvedId(passes)
       THEN \* return inside try: finally has set submitting back
            /\ alert' = [title |-> "Invalid medication ID", about |-> editingMedication]
            /\ submitting' = FALSE
            /\ UNCHANGED <<saving, sent>>
       ELSE /\ submitting' = TRUE
            /\ IF editingMedication # Null
               THEN /\ sent' = Append(sent, [fn |-> "updateMedication", id |-> passes,
                                            about |-> editingMedication])
                    /\ saving' = [pc |-> "write", fn |-> "updateMedication"]
               ELSE /\ sent' = Append(sent, [fn |-> "addMedication", id |-> Str(user.id),
                                            about |-> Null])
                    /\ saving' = [pc |-> "write", fn |-> "addMedication"]
            /\ alert' = alert
    /\ UNCHANGED <<formVisible, formState, editingMedication, deleting, besidesForm>>

\* medications.tsx 748-775: handleSave
HandleSave ==
    /\ handled.handler \notin {"handleSaveEarlier", "handleDeleteEarlier"}
    /\ SaveStep("handleSave",
                IF editingMedication = Null THEN Undef
                ELSE ResolveMedicationId(editingMedication), TRUE)

\* medications.tsx 133-149: handleSave of the earlier variant
HandleSaveEarlier ==
    /\ handled.handler \notin {"handleSave", "handleDelete"}
    /\ SaveStep("handleSaveEarlier",
                IF editingMedication = Null THEN Undef
                ELSE editingMedication.medication_id, FALSE)

\* medications.tsx 770-794, 664-678: updateMedication or addMedication settles; on
\* success fetchMedications calls getMedications, on failure the catch and the
\* finally block run
SaveWriteSettles ==
    /\ saving.pc = "write"
    /\ \E ok \in BOOLEAN :
        IF ok
        THEN /\ sent' = Append(sent, [fn |-> "getMedications", id |-> Str(user.id),
                                     about |-> editingMedication])
             /\ saving' = [saving EXCEPT !.pc = "fetch"]
             /\ UNCHANGED <<submitting, alert>>
        ELSE /\ alert' = [title |-> "Save failed", about |-> editingMedication]
             /\ submitting' = FALSE
             /\ saving' = NoSaving
             /\ sent' = sent
    /\ UNCHANGED <<formVisible, formState, editingMedication, deleting, handled, attempts,
                   besidesForm>>

\* medications.tsx 664-678, 787-793: fetchMedications ends (it catches its own
\* failure), the form closes and the finally block runs
SaveFetchSettles ==
    /\ saving.pc = "fetch"
    /\ \E ok \in BOOLEAN :
        alert' = IF ok THEN alert ELSE [title |-> "Unable to load", about |-> Null]
    /\ formVisible' = FALSE
    /\ submitting' = FALSE
    /\ saving' = NoSaving
    /\ UNCHANGED <<formState, editingMedication, deleting, sent, handled, attempts,
                   besidesForm>>

\* handleDelete up to the confirmation dialog
DeleteStep(handler, medication, passes, checks) ==
    /\ ~formVisible
    /\ deleting.pc = "idle"
    /\ attempts < MaxAttempts
    /\ attempts' = attempts + 1
    /\ handled' = [handler |-> handler, name |-> <<>>, about |-> medication]
    /\ IF checks /\ InvalidResolvedId(passes)
       THEN /\ alert' = [title |-> "Invalid medication ID", about |-> medication]
            /\ deleting' = deleting
       ELSE /\ alert' = [title |-> "Remove medication", about |-> medication]
            /\ deleting' = [pc |-> "confirm", id |-> passes, about |-> medication]
    /\ UNCHANGED <<formVisible, formState, submitting, editingMedication, saving, sent,
                   besidesForm>>

\* medications.tsx 796-827: handleDelete
HandleDelete ==
    /\ handled.handler \notin {"handleSaveEarlier", "handleDeleteEarlier"}
    /\ \E medication \in FormMedications :
        DeleteStep("handleDelete", medication, ResolveMedicationId(medication), TRUE)

\* medications.tsx 173-195: handleDelete of the earlier variant
HandleDeleteEarlier ==
    /\ handled.handler \notin {"handleSave", "handleDelete"}
    /\ \E medication \in FormMedications :
        DeleteStep("handleDeleteEarlier", medication, medication.medication_id, FALSE)

\* medications.tsx 819-825: the dialog is answered: Cancel, or Delete, which runs
\* performDelete up to its await
AnswerDelete ==
    /\ deleting.pc = "confirm"
    /\ \E confirmed \in BOOLEAN :
        IF confirmed
        THEN /\ sent' = Append(sent, [fn |-> "deleteMedication", id |-> deleting.id,
                                     about |-> deleting.about])
             /\ deleting' = [deleting EXCEPT !.pc = "write"]
        ELSE /\ sent' = sent
             /\ deleting' = NoDeleting
    /\ UNCHANGED <<formVisible, formState, submitting, editingMedication, saving, alert,
                   handled, attempts, besidesForm>>

\* medications.tsx 806-814: deleteMedication settles; on success fetchMedications
\* calls getMedications (while the user is there), on failure the catch runs
DeleteSettles ==
    /\ deleting.pc = "write"
    /\ \E ok \in BOOLEAN :
        IF ok
        THEN /\ sent' = IF user = NoUser THEN sent
                        ELSE Append(sent, [fn |-> "getMedications", id |-> Str(user.id),
                                           about |-> deleting.about])
             /\ alert' = alert
        ELSE /\ alert' = [title |-> "Delete failed", about |-> deleting.about]
             /\ sent' = sent
    /\ deleting' = NoDeleting
    /\ UNCHANGED <<formVisible, formState, submitting, editingMedication, saving, handled,
                   attempts, besidesForm>>

FormNext ==
    \/ OpenForm
    \/ CloseForm
    \/ HandleSave
    \/ HandleSaveEarlier
    \/ SaveWriteSettles
    \/ SaveFetchSettles
    \/ HandleDelete
    \/ HandleDeleteEarlier
    \/ AnswerDelete
    \/ DeleteSettles

(***************************************************************************)
(* The category selection of the medications screen.  fetchMedications is  *)
(* a callback of the render it was created in: it compares its target with *)
(* the selectedCategory of that render (its closure), not with the         *)
(* category selected when the answer arrives.                              *)
(***************************************************************************)
\* a getMedications in flight: the category asked for, the selectedCategory the
\* callback closed over, and whether it is the first fetch of a focus load
Fetch(target, closure, first) ==
    [target |-> target, closure |-> closure, first |-> first]

Fetches == [target : Categories, closure : Categories, first : BOOLEAN]

\* the fetches in flight with the fetches of the set added, one of each
Started(set) == [f \in Fetches |-> IF f \in set THEN fetching[f] + 1 ELSE fetching[f]]

\* medications.tsx 681-692: prefetchAllCategoryCounts of the render with this closure
Prefetch(closure) == {Fetch(c, closure, FALSE) : c \in Categories}

\* medications.tsx 645-658
CategoryInit ==
    /\ selectedCategory = "hairline"
    /\ medications = "none"
    /\ fetching = [f \in Fetches |-> 0]
    /\ categoryFocused = FALSE
    /\ fetchFailed = FALSE
    /\ selections = 0

\* medications.tsx 694-706: the screen gains focus and the load fetches the
\* selected category
CategoryFocus ==
    /\ ~categoryFocused
    /\ selections < MaxSelections
    /\ selections' = selections + 1
    /\ categoryFocused' = TRUE
    /\ fetching' = IF user = NoUser THEN fetching
                   ELSE Started({Fetch(selectedCategory, selectedCategory, TRUE)})
    /\ UNCHANGED <<selectedCategory, medications, fetchFailed, besidesCategory>>

\* medications.tsx 707-709: the screen loses focus
CategoryBlur ==
    /\ categoryFocused
    /\ categoryFocused' = FALSE
    /\ UNCHANGED <<selectedCategory, medications, fetching, fetchFailed, selections,
                   besidesCategory>>

\* medications.tsx 903-906, 694-711 (and 781-785): a category is pressed:
\* setSelectedCategory, fetchMedications of the render before the change, and, the
\* selection having changed, the focus effect runs again with the new render's
\* callbacks
SelectCategory ==
    /\ categoryFocused
    /\ selections < MaxSelections
    /\ selections' = selections + 1
    /\ \E option \in Categories :
        /\ selectedCategory' = option
        /\ fetching' =
            IF user = NoUser THEN fetching
            ELSE IF option = selectedCategory
            THEN Started({Fetch(option, selectedCategory, FALSE)})
            ELSE Started({Fetch(option, selectedCategory, FALSE),
                          Fetch(option, option, TRUE)})
    /\ UNCHANGED <<medications, categoryFocused, fetchFailed, besidesCategory>>

\* medications.tsx 774, 809: after an update or a delete the category of the
\* medication is fetched again
RefetchAfterWrite ==
    /\ categoryFocused
    /\ user # NoUser
    /\ selections < MaxSelections
    /\ selections' = selections + 1
    /\ \E category \in Categories :
        fetching' = Started({Fetch(category, selectedCategory, FALSE)})
    /\ UNCHANGED <<selectedCategory, medications, categoryFocused, fetchFailed,
                   besidesCategory>>

\* medications.tsx 668-677, 701-703: a getMedications settles; the list is replaced
\* when the target is the selectedCategory of the closure; the first fetch of a load
\* goes on to the prefetch
GetMedicationsSettles ==
    \E f \in Fetches :
        /\ fetching[f] > 0
        /\ \E ok \in BOOLEAN :
            /\ medications' = IF ok /\ f.target = f.closure THEN f.target ELSE medications
            /\ fetchFailed' = (fetchFailed \/ ~ok)
        /\ fetching' =
            [g \in Fetches |->
                (IF g = f THEN fetching[g] - 1 ELSE fetching[g])
                + (IF f.first /\ g \in Prefetch(f.closure) THEN 1 ELSE 0)]
        /\ UNCHANGED <<selectedCategory, categoryFocused, selections, besidesCategory>>

CategoryNext ==
    \/ CategoryFocus
    \/ CategoryBlur
    \/ SelectCategory
    \/ RefetchAfterWrite
    \/ GetMedicationsSettles

(***************************************************************************)
(* The photo submission of the entries screen, openPicker: one run asks    *)
(* for the permission, opens the picker, reads the cached sequence id,     *)
(* creates the entry, stores the sequence id returned, reloads the list    *)
(* and clears the uploading flag.  Each condition has its own screen; the  *)
(* button of a screen is disabled while its flag is set, and the runs of   *)
(* different screens go on side by side.                                   *)
(***************************************************************************)
\* [condition].tsx 88-90: the conditions of the screens
Conditions == {"hairline", "acne", "mole"}

\* [condition].tsx 193, 209
SequenceTracked(entryType) == entryType = "hairline" \/ entryType = "acne"

\* the entry objects the server answers createEntry with
CreatedEntries ==
    {EmptyObject,
     [sequence_id |-> Str(<<>>)],
     [sequence_id |-> Str(<<"s1">>)],
     [sequenceId |-> Str(<<"s2">>)]}

\* UserContext.tsx 329: the sequence_id of the entry createEntry resolves to
EntrySequenceId(f) == FirstOf(f, SequenceKeys, Null)

\* UserContext.tsx 517-519: the sequence_id part of the form data, none when the
\* payload's sequence_id is falsy
SequencePart(sequenceId) == IF Truthy(sequenceId) THEN sequenceId ELSE Undef

NoUpload ==
    [entryType |-> "none", pc |-> "none", sequenceId |-> Null,
     sent |-> FALSE, part |-> Undef, entry |-> Undef, stored |-> FALSE,
     read |-> NoSequenceIds, after |-> <<>>, ended |-> "none"]

PickerInit ==
    /\ uploading = [c \in Conditions |-> FALSE]
    /\ uploads = <<>>
    /\ returnedIds = [c \in Conditions |-> <<>>]

\* [condition].tsx 274-275, 146-148: the button is enabled; openPicker sets uploading
\* and asks for the permission
OpenPicker ==
    /\ Len(uploads) < MaxUploads
    /\ user # NoUser
    /\ \E entryType \in Conditions :
        /\ ~uploading[entryType]
        /\ uploading' = [uploading EXCEPT ![entryType] = TRUE]
        /\ uploads' =
            Append(uploads,
                   [NoUpload EXCEPT !.entryType = entryType, !.pc = "permission",
                                    !.after = returnedIds[entryType]])
    /\ UNCHANGED returnedIds
    /\ UNCHANGED besidesPicker

\* a run that clears the flag on the paths that return early alone, with no finally
Leave_WithoutFinally(i, how, changed) ==
    LET run == [changed EXCEPT !.pc = "done", !.ended = how]
    IN  /\ uploads' = [uploads EXCEPT ![i] = run]
        /\ uploading' =
            IF how \in {"denied", "canceled", "noAsset"}
            THEN [uploading EXCEPT ![run.entryType] = FALSE]
            ELSE uploading
        /\ returnedIds' = returnedIds

\* the run leaves openPicker: lines 159-160, 169-170, 180-181, 186-187 and the
\* finally of lines 225-227 all clear the flag
Leave(i, how, changed) ==
    LET run == [changed EXCEPT !.pc = "done", !.ended = how]
    IN  /\ uploads' = [uploads EXCEPT ![i] = run]
        /\ uploading' = [uploading EXCEPT ![run.entryType] = FALSE]
        /\ returnedIds' =
            IF how = "created" /\ SequenceTracked(run.entryType)
                /\ Truthy(run.entry)
            THEN [returnedIds EXCEPT ![run.entryType] = run.entry.s]
            ELSE returnedIds

\* lines 155-173: the permission request settles
PermissionSettles ==
    /\ \E i \in DOMAIN uploads, status \in {"granted", "denied", "threw"} :
        /\ uploads[i].pc = "permission"
        /\ IF status = "granted"
           THEN /\ uploads' = [uploads EXCEPT ![i].pc = "pick"]
                /\ UNCHANGED <<uploading, returnedIds>>
           ELSE Leave(i, status, uploads[i])
    /\ UNCHANGED besidesPicker

\* lines 175-188: the picker settles
PickSettles ==
    /\ \E i \in DOMAIN uploads, result \in {"asset", "canceled", "noAsset", "threw"} :
        /\ uploads[i].pc = "pick"
        /\ IF result = "asset"
           THEN /\ uploads' =
                    [uploads EXCEPT ![i].pc =
                        IF SequenceTracked(uploads[i].entryType) THEN "get" ELSE "create"]
                /\ UNCHANGED <<uploading, returnedIds>>
           ELSE Leave(i, result, uploads[i])
    /\ UNCHANGED besidesPicker

\* lines 191-195: the cached sequence id is read
PickerGetsSequenceId ==
    /\ \E i \in DOMAIN uploads :
        /\ uploads[i].pc = "get"
        /\ uploads' =
            [uploads EXCEPT ![i].pc = "create",
                            ![i].sequenceId =
                                getSequenceId(sequenceIds, user, uploads[i].entryType)]
    /\ UNCHANGED <<uploading, returnedIds>>
    /\ UNCHANGED besidesPicker

\* lines 197-211, UserContext.tsx 510-532: createEntry posts the form data and
\* resolves to the normalized entry; a sequence id returned is stored next
CreateEntryResolves ==
    /\ \E i \in DOMAIN uploads, f \in CreatedEntries :
        LET run == [uploads[i] EXCEPT !.sent = TRUE,
                                      !.part = SequencePart(uploads[i].sequenceId),
                                      !.entry = EntrySequenceId(f)]
        IN  /\ uploads[i].pc = "create"
            /\ uploads' =
                [uploads EXCEPT ![i] =
                    [run EXCEPT !.pc =
                        IF SequenceTracked(run.entryType) /\ Truthy(run.entry)
                        THEN "set" ELSE "fetch"]]
    /\ UNCHANGED <<uploading, returnedIds>>
    /\ UNCHANGED besidesPicker

\* lines 222-227: createEntry fails; the catch alerts and the finally clears the flag
CreateEntryRejects ==
    /\ \E i \in DOMAIN uploads :
        /\ uploads[i].pc = "create"
        /\ Leave(i, "failed",
                 [uploads[i] EXCEPT !.sent = TRUE,
                                    !.part = SequencePart(uploads[i].sequenceId)])
    /\ UNCHANGED besidesPicker

\* lines 209-211: setSequenceId reads the map
PickerSetReads ==
    /\ \E i \in DOMAIN uploads :
        /\ uploads[i].pc = "set"
        /\ uploads' = [uploads EXCEPT ![i].pc = "write", ![i].read = sequenceIds]
    /\ UNCHANGED <<uploading, returnedIds>>
    /\ UNCHANGED besidesPicker

\* setSequenceId writes the map back
PickerSetWrites ==
    /\ \E i \in DOMAIN uploads :
        /\ uploads[i].pc = "write"
        /\ sequenceIds' =
            setSequenceId(uploads[i].read, user, uploads[i].entryType,
                          uploads[i].entry.s)
        /\ uploads' = [uploads EXCEPT ![i].pc = "fetch", ![i].stored = TRUE]
    /\ UNCHANGED <<uploading, returnedIds>>
    /\ UNCHANGED <<settingSequence, gotSequence, completedSets, overlapped>>
    /\ UNCHANGED <<normVars, apiVars, userVars, screenVars, formVars, categoryVars,
                   exportVars, modalVars>>

\* lines 213-227, 97-109: fetchEntries settles, having caught its own failure; the
\* run navigates to the entry and the finally clears the flag
PickerFetchSettles ==
    /\ \E i \in DOMAIN uploads :
        /\ uploads[i].pc = "fetch"
        /\ Leave(i, "created", uploads[i])
    /\ UNCHANGED besidesPicker

PickerNext ==
    \/ OpenPicker
    \/ PermissionSettles
    \/ PickSettles
    \/ PickerGetsSequenceId
    \/ CreateEntryResolves
    \/ CreateEntryRejects
    \/ PickerSetReads
    \/ PickerSetWrites
    \/ PickerFetchSettles

(***************************************************************************)
(* The export screen: handleExport asks the facade for the report, opens   *)
(* the URL in the browser and clears the exporting flag.                   *)
(***************************************************************************)
ExportInit ==
    /\ exporting = FALSE
    /\ exportRuns = <<>>
    /\ exportStatus = "none"

\* export.tsx 23-27, 80: the button is enabled; handleExport sets the flag, clears
\* the status and calls exportPdf
HandleExport ==
    /\ Len(exportRuns) < MaxBusy
    /\ user # NoUser
    /\ ~exporting
    /\ exporting' = TRUE
    /\ exportStatus' = "none"
    /\ exportRuns' = Append(exportRuns, [pc |-> "export", ended |-> "none"])
    /\ UNCHANGED besidesExport

\* export.tsx 28-38: exportPdf settles; a URL is opened in the browser, without one
\* the run ends; a failure goes through the catch; the finally clears the flag
ExportPdfSettles ==
    /\ \E i \in DOMAIN exportRuns, url \in {"url", "empty", "threw"} :
        /\ exportRuns[i].pc = "export"
        /\ CASE url = "url" ->
                    /\ exportRuns' = [exportRuns EXCEPT ![i].pc = "browser"]
                    /\ exportStatus' = "info"
                    /\ exporting' = exporting
             [] url = "empty" ->
                    /\ exportRuns' = [exportRuns EXCEPT ![i] = [pc |-> "done", ended |-> "opened"]]
                    /\ exportStatus' = "info"
                    /\ exporting' = FALSE
             [] OTHER ->
                    /\ exportRuns' = [exportRuns EXCEPT ![i] = [pc |-> "done", ended |-> "failed"]]
                    /\ exportStatus' = "error"
                    /\ exporting' = FALSE
    /\ UNCHANGED besidesExport

\* export.tsx 30-38: openBrowserAsync settles
BrowserSettles ==
    /\ \E i \in DOMAIN exportRuns, ok \in BOOLEAN :
        /\ exportRuns[i].pc = "browser"
        /\ exportRuns' =
            [exportRuns EXCEPT ![i] =
                [pc |-> "done", ended |-> IF ok THEN "opened" ELSE "failed"]]
        /\ exportStatus' = IF ok THEN exportStatus ELSE "error"
        /\ exporting' = FALSE
    /\ UNCHANGED besidesExport

ExportNext ==
    \/ HandleExport
    \/ ExportPdfSettles
    \/ BrowserSettles

(***************************************************************************)
(* The add-mole-entry modal: openImagePicker follows the steps of          *)
(* openPicker, with the location typed into the modal in place of the      *)
(* cached sequence id.                                                     *)
(***************************************************************************)
\* the locations typed
Locations == {<<>>, <<" ">>, <<"arm">>}

ModalInit ==
    /\ moleUploading = FALSE
    /\ moleRuns = <<>>
    /\ location = <<>>

\* AddMoleEntryModal.tsx 38, 50: the location is typed or picked from the grid
SetLocation ==
    /\ \E l \in Locations \ {location} : location' = l
    /\ UNCHANGED <<moleUploading, moleRuns>>
    /\ UNCHANGED besidesModal

\* AddMoleEntryModal.tsx 68-78: handleClose resets the form
HandleClose ==
    /\ location # <<>> \/ moleUploading
    /\ location' = <<>>
    /\ moleUploading' = FALSE
    /\ UNCHANGED moleRuns
    /\ UNCHANGED besidesModal

\* AddMoleEntryModal.tsx 181-188, 244, 80-84: the button is enabled and the location
\* is not blank; openImagePicker sets the flag and asks for the permission
OpenImagePicker ==
    /\ Len(moleRuns) < MaxBusy
    /\ user # NoUser
    /\ ~moleUploading
    /\ Trim(location) # <<>>
    /\ moleUploading' = TRUE
    /\ moleRuns' = Append(moleRuns, [pc |-> "permission", ended |-> "none"])
    /\ UNCHANGED location
    /\ UNCHANGED besidesModal

\* the run leaves openImagePicker: lines 96, 105, 117, 123, 129 and the finally of
\* lines 156-158 clear the flag
LeaveModal(i, how) ==
    /\ moleRuns' = [moleRuns EXCEPT ![i] = [pc |-> "done", ended |-> how]]
    /\ moleUploading' = FALSE

\* AddMoleEntryModal.tsx 92-108: the permission request settles
MolePermissionSettles ==
    /\ \E i \in DOMAIN moleRuns, answer \in {"granted", "denied", "threw"} :
        /\ moleRuns[i].pc = "permission"
        /\ IF answer = "granted"
           THEN /\ moleRuns' = [moleRuns EXCEPT ![i].pc = "pick"]
                /\ UNCHANGED moleUploading
           ELSE LeaveModal(i, answer)
    /\ UNCHANGED location
    /\ UNCHANGED besidesModal

\* AddMoleEntryModal.tsx 110-131: the picker settles; the location of this moment is
\* validated
MolePickSettles ==
    /\ \E i \in DOMAIN moleRuns, result \in {"asset", "canceled", "noAsset", "threw"} :
        /\ moleRuns[i].pc = "pick"
        /\ IF result # "asset"
           THEN LeaveModal(i, result)
           ELSE IF Trim(location) = <<>>
           THEN LeaveModal(i, "noLocation")
           ELSE /\ moleRuns' = [moleRuns EXCEPT ![i].pc = "create"]
                /\ UNCHANGED moleUploading
    /\ UNCHANGED location
    /\ UNCHANGED besidesModal

\* AddMoleEntryModal.tsx 144-158: createEntry settles; onEntryAdded is awaited next
MoleCreateSettles ==
    /\ \E i \in DOMAIN moleRuns, ok \in BOOLEAN :
        /\ moleRuns[i].pc = "create"
        /\ IF ok
           THEN /\ moleRuns' = [moleRuns EXCEPT ![i].pc = "added"]
                /\ UNCHANGED moleUploading
           ELSE LeaveModal(i, "failed")
    /\ UNCHANGED location
    /\ UNCHANGED besidesModal

\* AddMoleEntryModal.tsx 145-158: onEntryAdded settles
MoleAddedSettles ==
    /\ \E i \in DOMAIN moleRuns, ok \in BOOLEAN :
        /\ moleRuns[i].pc = "added"
        /\ LeaveModal(i, IF ok THEN "created" ELSE "failed")
    /\ UNCHANGED location
    /\ UNCHANGED besidesModal

ModalNext ==
    \/ SetLocation
    \/ HandleClose
    \/ OpenImagePicker
    \/ MolePermissionSettles
    \/ MolePickSettles
    \/ MoleCreateSettles
    \/ MoleAddedSettles

(***************************************************************************)
(* The handlers with a busy flag: openPicker, handleSave and handleDelete,  *)
(* handleExport and openImagePicker.  The flags are local state of four    *)
(* screens that share nothing with one another; a session works on one of  *)
(* them and leaves the others as they were constructed.                    *)
(***************************************************************************)
\* the handlers started so far
HandlersStarted(ups, atts, exps, moles) == Len(ups) + atts + Len(exps) + Len(moles)

WithinBusy == HandlersStarted(uploads, attempts, exportRuns, moleRuns) <= MaxBusy

BusyPicker == PickerNext /\ FormInit /\ ExportInit /\ ModalInit /\ WithinBusy'
BusyForm == FormNext /\ PickerInit /\ ExportInit /\ ModalInit /\ WithinBusy'
BusyExport == ExportNext /\ PickerInit /\ FormInit /\ ModalInit /\ WithinBusy'
BusyModal == ModalNext /\ PickerInit /\ FormInit /\ ExportInit /\ WithinBusy'

BusyNext ==
    \/ BusyPicker
    \/ BusyForm
    \/ BusyExport
    \/ BusyModal

(***************************************************************************)
InitNorm == NormInit /\ ApiInit /\ UserIdle /\ ScreensInit /\ SeqInit /\ FormInit
        /\ CategoryInit
        /\ PickerInit
        /\ ExportInit
        /\ ModalInit
SpecNorm == InitNorm /\ [][NextNorm]_vars

InitApi == ApiInit /\ NormIdle /\ UserIdle /\ ScreensInit /\ SeqInit /\ FormInit
        /\ CategoryInit
        /\ PickerInit
        /\ ExportInit
        /\ ModalInit
SpecApi == InitApi /\ [][ApiNext]_vars

InitUser == UserInit /\ NormIdle /\ ApiInit /\ ScreensInit /\ SeqInit /\ FormInit
        /\ CategoryInit
        /\ PickerInit
        /\ ExportInit
        /\ ModalInit
SpecUser == InitUser /\ [][UserNext]_vars

\* the effect of lines 27-41 runs once the provider is mounted, and getItem settles
FairSpecUser == SpecUser /\ WF_vars(LoadRead) /\ WF_vars(LoadFinish)

InitScreens ==
    ScreensInit /\ (UserSignedIn \/ UserIdle) /\ NormIdle /\ ApiInit /\ SeqInit
        /\ FormInit
        /\ CategoryInit
        /\ PickerInit
        /\ ExportInit
        /\ ModalInit
SpecScreens == InitScreens /\ [][ScreensNext]_vars
\* a getEntry that was sent settles
FairSpecScreens == SpecScreens /\ WF_vars(DetailResponse)

InitSeq == SeqInit /\ UserSignedIn /\ NormIdle /\ ApiInit /\ ScreensInit /\ FormInit
        /\ CategoryInit
        /\ PickerInit
        /\ ExportInit
        /\ ModalInit
SpecSeq == InitSeq /\ [][SeqNext]_vars

InitForm ==
    FormInit /\ (UserSignedIn \/ UserIdle) /\ NormIdle /\ ApiInit /\ ScreensInit
        /\ SeqInit
        /\ CategoryInit
        /\ PickerInit
        /\ ExportInit
        /\ ModalInit
SpecForm == InitForm /\ [][FormNext]_vars

InitCategory ==
    CategoryInit /\ (UserSignedIn \/ UserIdle) /\ NormIdle /\ ApiInit /\ ScreensInit
        /\ SeqInit /\ FormInit
        /\ PickerInit
        /\ ExportInit
        /\ ModalInit
SpecCategory == InitCategory /\ [][CategoryNext]_vars

InitPicker ==
    PickerInit /\ UserSignedIn /\ NormIdle /\ ApiInit /\ ScreensInit
        /\ SeqInit /\ FormInit /\ CategoryInit
        /\ ExportInit
        /\ ModalInit
SpecPicker == InitPicker /\ [][PickerNext]_vars

InitBusy ==
    PickerInit /\ ExportInit /\ ModalInit /\ FormInit /\ UserSignedIn /\ NormIdle
        /\ ApiInit /\ ScreensInit /\ SeqInit /\ CategoryInit
SpecBusy == InitBusy /\ [][BusyNext]_vars

(***************************************************************************)
(* Claims about the entry normalizer.                                      *)
(***************************************************************************)
\* raw without its envelopes
Unwrapped == Payload(0, raw.v, raw.f)

\* C1: for every object payload, normalizeEntrySummary (either variant) returns a
\* record whose entry_type is one of hairline, acne, mole and whose entry_id is a
\* non-empty string.
C1_TypeAndIdWellFormed ==
    (out.path \in {"list", "earlier"} /\ out.r.st = "ok") =>
        /\ Get(out.r.e, "entry_type").t = "str"
        /\ Get(out.r.e, "entry_type").s \in EntryTypes
        /\ Get(out.r.e, "entry_id").t = "str"
        /\ Get(out.r.e, "entry_id").s # <<>>

\* the fields of steps 3 to 12
IdempotentKeys ==
    {"created_at", "sequence_id", "image_id", "photo_url", "ai_comments", "ai_summary",
     "recommendations", "treatment", "norwood_score", "summary"}

\* C6: idempotence: normalizeEntrySummary(normalizeEntrySummary(p)) equals
\* normalizeEntrySummary(p) on the fields of steps 3 to 12, for every object payload p.
C6_Idempotent ==
    (out.path = "list" /\ again.st # "none") =>
        /\ again.st = "ok"
        /\ \A k \in IdempotentKeys : Get(again.e, k) = Get(out.r.e, k)

\* C7 as stated: a payload inside {entry: ...} envelopes normalizes to the record of
\* the unwrapped payload on every path, the list items of getEntries included.
C7_EnvelopeTransparentOnEveryPath ==
    /\ out.path = "detail" => out.r = normalizeEntryDetail(Unwrapped, out.at)
    /\ out.path = "list" =>
            out.r = normalizeEntrySummary(TopValue(Unwrapped), TopFields(Unwrapped), out.at)

\* C7 as amended: on the single-entry paths (getEntry, createEntry), which normalize
\* with normalizeEntryDetail, a payload inside any number of {entry: ...} envelopes
\* normalizes to the record of the unwrapped payload.
C7_EnvelopeTransparentOnDetailPath ==
    out.path = "detail" => out.r = normalizeEntryDetail(Unwrapped, out.at)

\* a doubly wrapped object with a type of its own was normalized on the detail path
C7_Witness ==
    /\ out.path = "detail"
    /\ raw.wrap >= 2
    /\ Get(raw.f, "type") = Str(<<"mole">>)
    /\ out.r.st = "ok"
    /\ Get(out.r.e, "entry_type") = Str(<<"mole">>)

\* C8: normalizeEntrySummary never throws on an object payload, whatever the types of
\* its field values, and fails with the invalid-payload error on every payload that
\* is not an object.
C8_TotalOnObjects ==
    out.path = "list" =>
        IF TopValue(raw).t \in {"obj", "arr"}
        THEN out.r.st = "ok"
        ELSE out.r.st = "invalid"

\* an object whose _id is itself an object was normalized without a throw
C8_Witness ==
    /\ out.path = "list"
    /\ raw.wrap = 0
    /\ raw.v.t = "obj"
    /\ Get(raw.f, "_id") = Obj
    /\ out.r.st = "ok"

\* the fields normalizeEntrySummary was handed on the path taken
SourceFields == IF out.path = "detail" THEN TopFields(Unwrapped) ELSE TopFields(raw)

\* the payload carried no id (every alias absent or null), the first normalization
\* synthesized one, and the record was normalized again
SynthesizedAndRenormalized ==
    /\ out.path \in {"list", "detail"}
    /\ out.r.st = "ok"
    /\ Nullish(FirstOf(SourceFields, IdKeys, Null))
    /\ again.st = "ok"

\* C13 as stated: re-normalizing a record whose entry_id was synthesized by a previous
\* normalization (the payload had no id) yields a different entry_id than the one
\* the record carries.
C13_ResynthesizedIdDiffers ==
    SynthesizedAndRenormalized =>
        Get(again.e, "entry_id") # Get(out.r.e, "entry_id")

\* C13 as amended: the synthesized id is written to entry_id and to _id, so the
\* second normalization resolves it from _id and returns the same entry_id at any
\* later clock reading; a new id is synthesized only when the payload's own _id is
\* an empty string, which the first normalization leaves in _id.
C13_SynthesizedIdKept ==
    /\ SynthesizedAndRenormalized =>
            /\ Get(out.r.e, "entry_id") = Str(Decimal(out.at))
            /\ Get(out.r.e, "_id") = Str(Decimal(out.at))
            /\ Get(again.e, "entry_id") = Get(out.r.e, "entry_id")
    /\ (/\ out.path = "list" /\ out.r.st = "ok" /\ again.st = "ok"
        /\ Get(SourceFields, "_id") = Str(<<>>)) =>
            /\ Get(out.r.e, "entry_id") = Str(Decimal(out.at))
            /\ Get(again.e, "entry_id") = Str(Decimal(now))

C13_Witness ==
    /\ SynthesizedAndRenormalized
    /\ out.at = 1 /\ now = 2
    /\ Get(again.e, "entry_id") = Str(<<"1">>)

\* the elements of a sequence coerced to string and trimmed, the empty ones dropped,
\* the rest joined by single spaces
TrimmedJoin(items) ==
    Str(Join(NonEmptyTexts([i \in 1..Len(items) |-> Trim(JsString(items[i]))]), <<" ">>))

\* C14: when the ai_comments source is a sequence, the normalized ai_comments is its
\* elements coerced to string, trimmed, the empty ones dropped, joined by single
\* spaces; the same holds of recommendations.
C14_SequenceJoinedTrimmed ==
    (out.path \in {"list", "detail"} /\ out.r.st = "ok") =>
        LET comments == FirstOf(SourceFields, AiCommentsKeys, Null)
            advice == FirstOf(SourceFields, RecommendationKeys, Null)
        IN  /\ comments.t = "arr" =>
                    Get(out.r.e, "ai_comments") = TrimmedJoin(comments.a)
            /\ advice.t = "arr" =>
                    Get(out.r.e, "recommendations") = TrimmedJoin(advice.a)

\* the id the payload resolves to, and the prefix its resolved type gives
ResolvedId == FirstOf(SourceFields, IdKeys, Null)
TypePrefix == JsString(ResolveEntryType(SourceFields)) \o <<"-">>

\* txt without the prefix when it begins with it, txt itself otherwise
WithoutPrefix(txt, prefix) ==
    IF Len(txt) >= Len(prefix) /\ \A i \in 1..Len(prefix) : txt[i] = prefix[i]
    THEN [i \in 1..(Len(txt) - Len(prefix)) |-> txt[Len(prefix) + i]]
    ELSE txt

\* the entry_id a text ends as: itself, or the clock's when nothing is left of it
IdFrom(txt) == IF txt = <<>> THEN Str(Decimal(out.at)) ELSE Str(txt)

\* C15 as stated: a resolved id that is a string beginning with "<entry_type>-" loses
\* exactly that one prefix; an id without that prefix is kept unchanged.
C15_PrefixRemovedElseUnchanged ==
    (out.path \in {"list", "detail"} /\ out.r.st = "ok" /\ ResolvedId.t = "str") =>
        Get(out.r.e, "entry_id") = IdFrom(WithoutPrefix(ResolvedId.s, TypePrefix))

\* C15 as amended: a resolved id that is a string, or a number coerced to one, is
\* trimmed first; the trimmed id loses one leading "<entry_type>-" when it begins
\* with it and is otherwise kept as trimmed.
C15_TrimmedThenPrefixRemoved ==
    (out.path \in {"list", "detail"} /\ out.r.st = "ok"
        /\ ResolvedId.t \in {"str", "num"}) =>
        Get(out.r.e, "entry_id") = IdFrom(WithoutPrefix(Trim(ResolvedId.s), TypePrefix))

C15_Witness ==
    /\ out.path = "list" /\ out.r.st = "ok"
    /\ ResolvedId = Str(<<"hairline", "-", "hairline", "-", "b">>)
    /\ TypePrefix = <<"hairline", "-">>
    /\ Get(out.r.e, "entry_id") = Str(<<"hairline", "-", "b">>)

\* the first of the candidates that is a string with something left after trim, null
\* when there is none
FirstNonBlank(candidates) ==
    LET hits == {i \in 1..Len(candidates) :
                    candidates[i].t = "str" /\ Trim(candidates[i].s) # <<>>}
    IN  IF hits = {} THEN Null
        ELSE candidates[CHOOSE i \in hits : \A j \in hits : i <= j]

\* C16: the normalized summary is the first non-blank string among the payload's
\* summary, the ai_summary after the backfill, the normalized ai_comments, the
\* normalized recommendations and user_notes, and null when none is; in either
\* variant of the normalizer.
C16_SummaryFirstNonBlank ==
    (out.path \in {"list", "detail", "earlier"} /\ out.r.st = "ok") =>
        Get(out.r.e, "summary") =
            FirstNonBlank(<<Get(SourceFields, "summary"),
                            Get(out.r.e, "ai_summary"),
                            Get(out.r.e, "ai_comments"),
                            Get(out.r.e, "recommendations"),
                            Get(SourceFields, "user_notes")>>)

\* the payload's own ai_summary, and whether it is a string of whitespace only
PayloadAiSummary == Get(SourceFields, "ai_summary")
BlankText(v) == v.t = "str" /\ \A i \in 1..Len(v.s) : v.s[i] \in Whitespace
CommentsNonBlank ==
    /\ Get(out.r.e, "ai_comments").t = "str"
    /\ ~BlankText(Get(out.r.e, "ai_comments"))

\* C17 as stated: the normalized ai_summary is the normalized ai_comments exactly when
\* the payload's ai_summary is absent or blank and the normalized ai_comments is
\* non-blank; otherwise the payload's ai_summary stands.
C17_BackfillWhenAbsentOrBlank ==
    (out.path \in {"list", "detail"} /\ out.r.st = "ok") =>
        Get(out.r.e, "ai_summary") =
            IF (Nullish(PayloadAiSummary) \/ BlankText(PayloadAiSummary)) /\ CommentsNonBlank
            THEN Get(out.r.e, "ai_comments")
            ELSE PayloadAiSummary

\* C17 as amended: the backfill happens exactly when the payload's ai_summary is
\* falsy (absent, null, the empty string, 0, false) or a blank string and the
\* normalized ai_comments is non-blank; any other ai_summary stands.
C17_BackfillWhenFalsyOrBlank ==
    (out.path \in {"list", "detail"} /\ out.r.st = "ok") =>
        Get(out.r.e, "ai_summary") =
            IF /\ \/ Nullish(PayloadAiSummary)
                  \/ BlankText(PayloadAiSummary)
                  \/ PayloadAiSummary \in {Num(<<"0">>), Bool(FALSE)}
               /\ CommentsNonBlank
            THEN Get(out.r.e, "ai_comments")
            ELSE PayloadAiSummary

C17_Witness ==
    /\ out.path = "list" /\ out.r.st = "ok"
    /\ PayloadAiSummary = Str(<<" ">>)
    /\ Get(out.r.e, "ai_comments") = Str(<<"a", " ", "b">>)
    /\ Get(out.r.e, "ai_summary") = Str(<<"a", " ", "b">>)

\* the entry_id a resolved id leads to: a number as its decimal string; a string
\* trimmed and without the type prefix in the current variant, as it is in the
\* earlier one
DerivedId(id) ==
    IF id.t = "num" THEN Str(id.s)
    ELSE IF out.path = "earlier" THEN id
    ELSE IdFrom(WithoutPrefix(Trim(id.s), TypePrefix))

\* C21: the normalized entry_type is the first non-null of entry_type, type,
\* entryType, condition, else "hairline"; the normalized entry_id comes from the
\* first non-null of _id, entry_id, id, entryId, entryID, a number coerced to its
\* decimal string; in either variant of the normalizer.
C21_AliasOrder ==
    (out.path \in {"list", "detail", "earlier"} /\ out.r.st = "ok") =>
        /\ Get(out.r.e, "entry_type") = FirstOf(SourceFields, TypeKeys, Str(<<"hairline">>))
        /\ (ResolvedId.t \in {"str", "num"} /\ Truthy(ResolvedId)) =>
                Get(out.r.e, "entry_id") = DerivedId(ResolvedId)

(***************************************************************************)
(* Claims about the HTTP adapter and the medication writes.                *)
(***************************************************************************)
\* an id that is empty, whitespace only, or the text "undefined"
BadMedicationId(id) ==
    \/ id = <<>>
    \/ \A i \in 1..Len(id) : id[i] \in Whitespace
    \/ id = <<"undefined">>

\* C2: updateMedication and deleteMedication, called with an id that is empty,
\* whitespace or the text "undefined", fail with the local validation error and no
\* request is issued; in every variant of the facade.
C2_InvalidIdFailsLocally ==
    (/\ call.op \in {"updateMedication", "deleteMedication",
                     "updateMedicationEarlier", "deleteMedicationEarlier"}
     /\ BadMedicationId(call.id)) =>
        /\ call.r.st = "threw"
        /\ call.r.err = "InvalidId"
        /\ call.issued = 0

\* the body a failed response is reported with: the parsed JSON, else the raw text,
\* else null
BestEffortBody(text) ==
    CASE text = <<>> -> Null
      [] text = <<"null">> -> Null
      [] text = <<"{", "}">> -> Obj
      [] text = <<"\"", "gone", "\"">> -> Str(<<"gone">>)
      [] text = <<"[", "]">> -> Arr(<<>>)
      [] text = <<"[", "{", "}", "]">> -> Arr(<<Obj>>)
      [] text \in {<<"{", "user_id", "u1", "}">>, <<"{", "url", "x", "}">>} -> Obj
      [] OTHER -> Str(text)

\* C5: a response whose status is not 2xx makes the facade call fail with an error
\* that carries the HTTP status and the body parsed as far as possible: the JSON
\* value, else the raw text, else null.
C5_NonOkRaisesStatusAndBody ==
    (resp.kind = "http" /\ ~(resp.status \in 200..299)) =>
        /\ call.r.st = "threw"
        /\ call.r.err = "ApiError"
        /\ call.r.status = resp.status
        /\ call.r.body = BestEffortBody(resp.text)

\* a 404 with an HTML body failed the call with the status and the raw text
C5_Witness ==
    /\ resp.kind = "http"
    /\ resp.status = 404
    /\ resp.text = <<"<", "html", ">">>
    /\ call.r.st = "threw"
    /\ call.r.status = 404
    /\ call.r.body = Str(<<"<", "html", ">">>)

(***************************************************************************)
(* Claims about UserProvider.                                              *)
(***************************************************************************)
\* C3: the current user changes only by absent to present (create), present to
\* present' (refresh) and present to absent (sign out); in particular, as the claim
\* puts it, a refresh never turns an absent user into a present one.
C3_RefreshNeverRevivesUser ==
    [][(lastStep' = "RefreshUserApi" /\ user = NoUser) => user' = NoUser]_vars

\* the startup load ends in failure at this step
LoadFailsNow == load.pc = "read" /\ load'.pc = "done" /\ load'.outcome = "failed"

\* C9: whatever is stored and whether or not the read fails, the startup load ends
\* without crashing: a load that fails on the read or on the parse leaves 'no user',
\* and isLoading becomes false for good.
C9_StartupLoadEnds ==
    /\ [][LoadFailsNow => user' = NoUser]_vars
    /\ [](load.outcome # "crashed")
    /\ <>[](load.pc = "done" /\ ~isLoading)

\* a corrupt stored value was read, the parse failed, and the provider stands loaded
\* without a user
C9_Witness ==
    /\ load.pc = "done"
    /\ load.ok
    /\ load.stored = Str(<<"{", "id", "u1">>)
    /\ load.outcome = "failed"
    /\ ~isLoading
    /\ user = NoUser

(***************************************************************************)
(* Claims about the loads of the screens.                                  *)
(***************************************************************************)
\* what the screens hold of the server's data
Held ==
    <<entriesScreen.entries, medicationsScreen.medications, homeScreen, detailScreen.entry>>

\* C4: for the list fetches started by a focus (entries, medications, home summaries)
\* and the load of the entry detail: a response that arrives after the teardown, the
\* liveness flag being false, is discarded: it changes nothing of the entries, the
\* medications, the summaries or the entry.
C4_ResponseAfterTeardownDiscarded ==
    [][\A i \in DOMAIN loads :
            (loads'[i].left # loads[i].left /\ ~loads[i].active) => Held' = Held]_vars

(***************************************************************************)
(* Claims about the sequence-id cache.                                     *)
(***************************************************************************)
\* what a lookup has to return, given the sets that have completed
Remembered(completed, u, type) ==
    IF u # NoUser /\ <<u.id, type>> \in DOMAIN completed
    THEN Str(completed[<<u.id, type>>])
    ELSE Null

MissedBy(set) ==
    {k \in DOMAIN sequenceIds \ {<<set.u.id, set.type>>} :
        k \notin DOMAIN set.read \/ set.read[k] # sequenceIds[k]}

\* C11: setSequenceId is an unlocked read-modify-write of the whole map: when a write
\* was computed from a read that missed an earlier write, that earlier write is lost
\* from the persisted map (the key is gone, or back at the value the read saw).
C11_LaterWriteLosesMissedUpdate ==
    [][\A i \in DOMAIN settingSequence :
            (settingSequence[i].pc = "write" /\ settingSequence'[i].pc = "done") =>
                \A k \in MissedBy(settingSequence[i]) :
                    \/ k \notin DOMAIN sequenceIds'
                    \/ sequenceIds'[k] # sequenceIds[k]]_vars

\* two overlapping sets of different keys have both completed, and the persisted map
\* lacks the key of one of them
C11_Witness ==
    /\ overlapped
    /\ \A i \in DOMAIN settingSequence : settingSequence[i].pc = "done"
    /\ Cardinality(DOMAIN completedSets) = 2
    /\ Cardinality(DOMAIN sequenceIds) = 1

\* C12: no facade operation retries: a call of any of the ten operations issues at
\* most one request, and a transport failure or a response whose status is not 2xx
\* ends the call with a thrown error.
FacadeOperations ==
    {"createUser", "getUser", "getEntries", "getEntry", "createEntry", "deleteEntry",
     "getMedications",
     "addMedication", "updateMedication", "deleteMedication", "exportPdf"}

C12_OneRequestAndFailurePropagates ==
    call.op \in FacadeOperations =>
        /\ call.issued <= 1
        /\ Len(requests) <= calls
        /\ (resp.kind = "failed" \/ (resp.kind = "http" /\ ~ResponseOk(resp.status)))
                => call.r.st = "threw"

C12_Witness ==
    /\ call.op = "getMedications"
    /\ call.issued = 1
    /\ Len(requests) = calls
    /\ resp.kind = "http" /\ resp.status = 500
    /\ call.r.st = "threw"

\* C18: for a 2xx response apiFetch returns null when the body is empty, the parsed
\* value when the body is JSON, and the raw text when it is not; it never fails
\* because the body does not parse.
C18_OkBodyBestEffort ==
    (resp.kind = "http" /\ ResponseOk(resp.status)) =>
        /\ call.fetched.st = "returned"
        /\ call.fetched.body = BestEffortBody(resp.text)

C18_Witness ==
    /\ resp.kind = "http" /\ resp.status = 204
    /\ resp.text = <<"<", "html", ">">>
    /\ call.fetched.st = "returned"
    /\ call.fetched.body = Str(<<"<", "html", ">">>)

(***************************************************************************)
(* Claims about the medication form.                                       *)
(***************************************************************************)
\* the first of medication_id, id, _id that is a string with something in it;
\* undefined when none is
FirstNonEmptyId(medication) ==
    LET ids == <<medication.medication_id, medication.id, medication._id>>
        filled == {i \in 1..3 : ids[i].t = "str" /\ ids[i].s # <<>>}
    IN  IF filled = {} THEN Undef
        ELSE ids[CHOOSE i \in filled : \A j \in filled : i <= j]

\* C19: the id the screen passes to updateMedication and deleteMedication is the
\* first non-empty of medication_id, id, _id of the medication, and the screen
\* treats the id as absent (an alert, nothing sent) only when all three are empty or
\* the result is the text "undefined"; in either variant of the screen.
C19_PassesFirstNonEmptyId ==
    /\ \A i \in DOMAIN sent :
            sent[i].fn \in {"updateMedication", "deleteMedication"} =>
                sent[i].id = FirstNonEmptyId(sent[i].about)
    /\ alert.title = "Invalid medication ID" =>
            FirstNonEmptyId(alert.about) \in {Undef, Str(<<"undefined">>)}

\* C20: a save with a name that is empty or whitespace only is rejected on the spot:
\* handleSave makes no add or update call and leaves the submitting flag and the
\* form's visibility as they were.
C20_BlankNameRejectedLocally ==
    [][(/\ attempts' # attempts
        /\ handled'.handler \in {"handleSave", "handleSaveEarlier"}
        /\ \A i \in 1..Len(formState.name) : formState.name[i] \in Whitespace) =>
            /\ sent' = sent
            /\ submitting' = submitting
            /\ formVisible' = formVisible]_vars

C20_Witness ==
    /\ user # NoUser
    /\ handled.handler = "handleSave"
    /\ handled.name = <<" ">>
    /\ alert.title = "Name required"
    /\ sent = <<>>
    /\ formVisible /\ ~submitting

(***************************************************************************)
(* Claims about the category selection of the medications screen.          *)
(***************************************************************************)
\* C22: after any sequence of selections, focus reloads, saves and deletes, with the
\* answers arriving in any order, once no fetch is in flight the visible list holds
\* the data fetched for the category selected, never that of another category.
C22_ListIsOfSelectedCategory ==
    (/\ \A f \in Fetches : fetching[f] = 0
     /\ ~fetchFailed
     /\ medications # "none") =>
        medications = selectedCategory

(***************************************************************************)
(* Claims about the photo submission of the entries screen.                *)
(***************************************************************************)
\* C23: a hairline or acne submission that starts after an earlier submission of
\* its condition completed with a sequence id returned sends createEntry with
\* that id; a mole submission neither reads nor writes the cache; a submission
\* whose createEntry failed has written nothing.
C23_CarriesReturnedSequenceId ==
    \A i \in DOMAIN uploads :
        LET run == uploads[i]
        IN  /\ (run.sent /\ SequenceTracked(run.entryType) /\ run.after # <<>>) =>
                    run.part = Str(run.after)
            /\ run.entryType = "mole" =>
                    (run.sequenceId = Null /\ run.part = Undef /\ ~run.stored)
            /\ run.ended = "failed" => ~run.stored

(***************************************************************************)
(* Claims about the path of the medication writes.                         *)
(***************************************************************************)
\* the medication-id segment of a request path "/medications/<id>"
IdSegment(path) == Slice(path, 1)

\* C24: whatever id updateMedication and deleteMedication (lines 565-587) are
\* called with, a request they issue never has an empty medication-id segment nor
\* the segment "undefined".
C24_NoPlaceholderIdInPath ==
    (/\ call.op \in {"updateMedication", "deleteMedication"}
     /\ call.issued = 1) =>
        /\ IdSegment(requests[Len(requests)].path) # <<>>
        /\ IdSegment(requests[Len(requests)].path) # <<"undefined">>

(***************************************************************************)
(* Claims about the busy flags.                                            *)
(***************************************************************************)
\* C25: whenever no run of a handler is in progress on a screen, the busy flag of
\* that screen is false: uploading after openPicker, submitting after handleSave,
\* exporting after handleExport, uploading after openImagePicker, whichever way the
\* run ended.
C25_BusyFlagsCleared ==
    /\ \A c \in Conditions :
            (\A i \in DOMAIN uploads :
                uploads[i].entryType = c => uploads[i].pc = "done") => ~uploading[c]
    /\ saving.pc = "idle" => ~submitting
    /\ (\A i \in DOMAIN exportRuns : exportRuns[i].pc = "done") => ~exporting
    /\ (\A i \in DOMAIN moleRuns : moleRuns[i].pc = "done") => ~moleUploading

\* two runs of openPicker have ended, one by a failed createEntry and one by a
\* cancelled picker, and the flags are clear
C25_Witness ==
    /\ \E i, j \in DOMAIN uploads :
            /\ uploads[i].ended = "failed"
            /\ uploads[j].ended = "canceled"
    /\ \A c \in Conditions : ~uploading[c]

(***************************************************************************)
(* Claims about the user in memory and the user in storage.                *)
(***************************************************************************)
\* the stored record is the user in memory: both absent, or the same id and name
InMemoryIsPersisted ==
    IF user = NoUser
    THEN ~Truthy(storage) \/ ParseStored(storage.s) = NoUser
    ELSE Truthy(storage) /\ ParseStored(storage.s) = user

\* the startup load has ended with memory and storage agreeing, and no createUser,
\* refreshUser or signOut is in flight
NoUserOperation ==
    /\ load.pc = "done"
    /\ load.outcome \in {"restored", "empty"}
    /\ creating = Idle
    /\ refreshing = Idle
    /\ signingOut = Idle

\* the request of a createUser fails at this step
CreateUserApiFails == creating.pc = "api" /\ creating' = Idle

\* C26: whenever no user operation is in flight, the user in memory is the user in
\* storage, whatever the interleaving of createUser, refreshUser and signOut and
\* whether or not a request or a storage write fails; and a createUser whose
\* request fails leaves both as they were.
C26_MemoryMatchesStorage ==
    /\ [](NoUserOperation => InMemoryIsPersisted)
    /\ [][CreateUserApiFails => (user' = user /\ storage' = storage)]_vars

(***************************************************************************)
(* Claims about the load of the entry-detail screen.                       *)
(***************************************************************************)
\* the load of an active mount of the detail screen settles at this step
DetailLoadSettles ==
    \E i \in DOMAIN loads :
        /\ loads[i].screen = "detail"
        /\ loads[i].active
        /\ loads[i].left # {}
        /\ loads'[i].left = {}

\* C27: every mount of the entry-detail screen that stays active leaves the loading
\* state, whether getEntry succeeds or fails and whatever the entryId parameter is;
\* and when the load of an active mount settles, either the entry is set and the
\* error is null, or the error is set.
C27_DetailLeavesLoading ==
    /\ (focused["detail"] /\ detailScreen.loading) ~>
            (~detailScreen.loading \/ ~focused["detail"])
    /\ [][DetailLoadSettles =>
            /\ ~detailScreen'.loading
            /\ \/ detailScreen'.error
               \/ detailScreen'.entry # "none" /\ ~detailScreen'.error]_vars

(***************************************************************************)
(* Claims about the entry detail of an empty answer.                       *)
(***************************************************************************)
\* the record of an entry nothing is known of, normalized at clock reading t
EmptyDetail(e, t) ==
    /\ Get(e, "entry_id") = Str(Decimal(t))
    /\ Get(e, "entry_type") = Str(<<"hairline">>)
    /\ Get(e, "analysis") = Null
    /\ Get(e, "medications") = Arr(<<>>)

\* C28: normalizeEntryDetail does not fail on a null payload nor on an envelope, at
\* any depth, whose entry is null: it returns a record with a synthesized entry_id,
\* entry_type "hairline", analysis null and no medications; and getEntry and
\* createEntry resolve to such a record when the server answers 2xx with an empty
\* body.
C28_EmptyAnswerGivesEmptyDetail ==
    /\ \A w \in 0..MaxWrap, t \in 0..MaxClock :
            LET detail == normalizeEntryDetail(Payload(w, Null, EmptyObject), t)
            IN  detail.st = "ok" /\ EmptyDetail(detail.e, t)
    /\ (/\ call.op \in {"getEntry", "createEntry"}
        /\ resp.kind = "http"
        /\ ResponseOk(resp.status)
        /\ resp.text = <<>>) =>
            /\ call.r.st = "returned"
            /\ EmptyDetail(call.r.body.e, now)

\* getEntry was answered 204 with an empty body and resolved to a hairline record
C28_Witness ==
    /\ call.op = "getEntry"
    /\ resp.kind = "http" /\ resp.status = 204 /\ resp.text = <<>>
    /\ call.r.st = "returned"
    /\ Get(call.r.body.e, "entry_type") = Str(<<"hairline">>)
    /\ Get(call.r.body.e, "medications") = Arr(<<>>)

(***************************************************************************)
(* Claims about the summaries of the home screen.                          *)
(***************************************************************************)
\* a list of created_at values runs from the newest to the oldest
NewestFirst(list) ==
    \A j, k \in 1..Len(list) : j < k => list[j] >= list[k]

\* C29: the summaries of the home screen change all or nothing per focus load:
\* while some getEntries of an active load is outstanding the tiles stay as they
\* are; when the last of the three has succeeded every tile holds its entries,
\* newest first, and is not loading; when one fails every tile is reset to the
\* default summary, the tiles whose own fetch succeeded included.
C29_HomeAllOrNothing ==
    [][\A i \in DOMAIN loads :
            (/\ loads[i].screen = "home"
             /\ loads[i].active
             /\ loads'[i].left # loads[i].left) =>
                IF loads'[i].left # {}
                THEN homeScreen' = homeScreen
                ELSE IF DOMAIN loads'[i].acc = Tiles
                THEN \A t \in Tiles :
                        /\ homeScreen'[t].entries = loads'[i].acc[t]
                        /\ NewestFirst(homeScreen'[t].entries)
                        /\ ~homeScreen'[t].isLoading
                ELSE \A t \in Tiles : homeScreen'[t] = DefaultSummary]_vars

\* a load of the focused home screen ended by a failure after another tile had
\* fetched entries, and every tile shows the default summary
C29_Witness ==
    \E i \in DOMAIN loads :
        /\ loads[i].screen = "home"
        /\ loads[i].active
        /\ loads[i].left = {}
        /\ DOMAIN loads[i].acc # Tiles
        /\ \E t \in DOMAIN loads[i].acc : Len(loads[i].acc[t]) >= 2
        /\ \A t \in Tiles : homeScreen[t] = DefaultSummary
====
